---- MODULE Spec2Model ----
(***************************************************************************)
(* The scoring engine of a11y-wizard: the three scoring policies           *)
(*   A  AccessibilityChecker._calculate_score      (accessibility_checker) *)
(*   B  AccessibilityScorer.calculate_score        (templates/scoring)     *)
(*   C  PDFAccessibilityChecker._calculate_score   (pdf_analyzer)          *)
(* as operators over the inputs the code takes, and a state machine whose  *)
(* state is the current input together with the scores the code returns    *)
(* for it.                                                                 *)
(*                                                                         *)
(* Policy A and Policy B compute with Python floats (IEEE-754 binary64).   *)
(* The module carries that arithmetic exactly: a float is sign, mantissa   *)
(* and exponent, the mantissa a natural number held in limbs because it    *)
(* needs 53 bits, and every operation rounds to nearest, ties to even, as  *)
(* the hardware does.  int() then truncates the very value the code has.   *)
(***************************************************************************)
EXTENDS Integers, Sequences, FiniteSets, TLC

(***************************************************************************)
(* Natural numbers of any size: little-endian sequences of limbs in        *)
(* 0..LimbBase-1 (15 bits each), no leading zero limb; <<>> is zero.       *)
(***************************************************************************)
LimbBase == 2^15

Limb(a, i) == IF i <= Len(a) THEN a[i] ELSE 0

RECURSIVE BNNorm(_)
BNNorm(a) ==
  IF a = <<>> THEN a
  ELSE IF a[Len(a)] = 0 THEN BNNorm(SubSeq(a, 1, Len(a) - 1)) ELSE a

RECURSIVE BNOfInt(_)
BNOfInt(n) == IF n = 0 THEN <<>> ELSE <<n % LimbBase>> \o BNOfInt(n \div LimbBase)

RECURSIVE BNToInt(_)
BNToInt(a) == IF a = <<>> THEN 0 ELSE a[1] + LimbBase * BNToInt(Tail(a))

RECURSIVE BNAddFrom(_, _, _, _)
BNAddFrom(a, b, i, c) ==
  IF i > Len(a) /\ i > Len(b) THEN (IF c = 0 THEN <<>> ELSE <<c>>)
  ELSE LET s == Limb(a, i) + Limb(b, i) + c
       IN  <<s % LimbBase>> \o BNAddFrom(a, b, i + 1, s \div LimbBase)

BNAdd(a, b) == BNAddFrom(a, b, 1, 0)

RECURSIVE BNSubFrom(_, _, _, _)
BNSubFrom(a, b, i, borrow) ==
  IF i > Len(a) THEN <<>>
  ELSE LET d == a[i] - Limb(b, i) - borrow
       IN  IF d < 0 THEN <<d + LimbBase>> \o BNSubFrom(a, b, i + 1, 1)
                    ELSE <<d>> \o BNSubFrom(a, b, i + 1, 0)

\* a - b, for a >= b
BNSub(a, b) == BNNorm(BNSubFrom(a, b, 1, 0))

RECURSIVE BNMulSmallFrom(_, _, _, _)
BNMulSmallFrom(a, d, i, c) ==
  IF i > Len(a) THEN (IF c = 0 THEN <<>> ELSE <<c>>)
  ELSE LET p == a[i] * d + c
       IN  <<p % LimbBase>> \o BNMulSmallFrom(a, d, i + 1, p \div LimbBase)

\* a * d, for 0 <= d < LimbBase
BNMulSmall(a, d) == IF d = 0 THEN <<>> ELSE BNMulSmallFrom(a, d, 1, 0)

BNShlLimbs(a, k) == IF a = <<>> THEN a ELSE [i \in 1..k |-> 0] \o a

RECURSIVE BNMulFrom(_, _, _)
BNMulFrom(a, b, i) ==
  IF i > Len(b) THEN <<>>
  ELSE BNAdd(BNShlLimbs(BNMulSmall(a, b[i]), i - 1), BNMulFrom(a, b, i + 1))

BNMul(a, b) == BNMulFrom(a, b, 1)

RECURSIVE BNPow(_, _)
BNPow(a, n) == IF n = 0 THEN <<1>> ELSE BNMul(BNPow(a, n - 1), a)

\* long division, from the top limb down: rest is the division of the limbs
\* below limb i, digit the quotient limb at i
BNDivStep(rest, digit) == [q |-> Append(rest.q, digit), r |-> rest.r]

RECURSIVE BNDivSmallFrom(_, _, _, _)
BNDivSmallFrom(a, d, i, r) ==
  IF i = 0 THEN [q |-> <<>>, r |-> r]
  ELSE BNDivStep(BNDivSmallFrom(a, d, i - 1, (r * LimbBase + a[i]) % d),
                 (r * LimbBase + a[i]) \div d)

BNDivNorm(x) == [q |-> BNNorm(x.q), r |-> x.r]

\* quotient and remainder of a by d, for 0 < d < LimbBase
BNDivSmall(a, d) == BNDivNorm(BNDivSmallFrom(a, d, Len(a), 0))

\* a * 2^k and floor(a / 2^k)
BNShl(a, k) == BNMulSmall(BNShlLimbs(a, k \div 15), 2^(k % 15))

BNShr(a, k) ==
  IF k \div 15 >= Len(a) THEN <<>>
  ELSE BNDivSmall(SubSeq(a, (k \div 15) + 1, Len(a)), 2^(k % 15)).q

RECURSIVE IntBitLen(_)
IntBitLen(n) == IF n = 0 THEN 0 ELSE 1 + IntBitLen(n \div 2)

BNBitLen(a) == IF a = <<>> THEN 0 ELSE 15 * (Len(a) - 1) + IntBitLen(a[Len(a)])

RECURSIVE BNCmpFrom(_, _, _)
BNCmpFrom(a, b, i) ==
  IF i = 0 THEN 0
  ELSE IF a[i] > b[i] THEN 1
  ELSE IF a[i] < b[i] THEN -1
  ELSE BNCmpFrom(a, b, i - 1)

\* 1, 0, -1 as a > b, a = b, a < b
BNCmp(a, b) ==
  IF Len(a) > Len(b) THEN 1
  ELSE IF Len(a) < Len(b) THEN -1
  ELSE BNCmpFrom(a, b, Len(a))

(***************************************************************************)
(* Python floats.  [neg, m, e] is the number (-1)^neg * m * 2^e with       *)
(* m < 2^53 (or m = 2^53 right after a carry).  Every value the scoring    *)
(* reaches lies between 2^-60 and 2^8 in magnitude, far from the           *)
(* subnormal and overflow ranges, so only the 53-bit rounding is modelled. *)
(***************************************************************************)
MkFloat(neg, m, e) == [neg |-> neg, m |-> m, e |-> e]

\* n * 2^e (plus, when sticky, a nonzero amount below n's last bit) rounded
\* to the nearest double, ties to even
\* q is n without its k low bits, c compares those bits with half a unit of q
RoundUp(q, c, sticky) == c = 1 \/ (c = 0 /\ (sticky \/ q[1] % 2 = 1))

RoundQuotient(neg, n, e, sticky, k, q) ==
  MkFloat(neg,
          IF RoundUp(q, BNCmp(BNSub(n, BNShl(q, k)), BNShl(<<1>>, k - 1)), sticky)
          THEN BNAdd(q, <<1>>) ELSE q,
          e + k)

RoundBits(neg, n, e, sticky, k) ==
  IF k <= 0 THEN MkFloat(neg, n, e)
  ELSE RoundQuotient(neg, n, e, sticky, k, BNShr(n, k))

RoundToDouble(neg, n, e, sticky) == RoundBits(neg, n, e, sticky, BNBitLen(n) - 53)

\* float(n) of a Python int
FromInt(n) == MkFloat(n < 0, BNOfInt(IF n < 0 THEN -n ELSE n), 0)

\* p / q of two Python ints (true division, correctly rounded), p >= 0 < q;
\* also the value of a decimal literal: 0.8 is FDivInt(8, 10)
FDivRound(d) == RoundToDouble(FALSE, d.q, -75, d.r # 0)

FDivInt(p, q) ==
  IF p = 0 THEN FromInt(0)
  ELSE FDivRound(BNDivSmall(BNShl(BNOfInt(p), 75), q))

FNeg(a) == MkFloat(~a.neg, a.m, a.e)

\* x * 2^e and y * 2^e of opposite signs, c comparing x with y
FAddOpposite(aneg, bneg, e, x, y, c) ==
  IF c = 0 THEN FromInt(0)
  ELSE IF c = 1 THEN RoundToDouble(aneg, BNSub(x, y), e, FALSE)
  ELSE RoundToDouble(bneg, BNSub(y, x), e, FALSE)

FAddAligned(aneg, bneg, e, x, y) ==
  IF aneg = bneg THEN RoundToDouble(aneg, BNAdd(x, y), e, FALSE)
  ELSE FAddOpposite(aneg, bneg, e, x, y, BNCmp(x, y))

FAddAt(a, b, e) ==
  FAddAligned(a.neg, b.neg, e, BNShl(a.m, a.e - e), BNShl(b.m, b.e - e))

FAdd(a, b) == FAddAt(a, b, IF a.e < b.e THEN a.e ELSE b.e)

FSub(a, b) == FAdd(a, FNeg(b))

FMul(a, b) == RoundToDouble(a.neg # b.neg, BNMul(a.m, b.m), a.e + b.e, FALSE)

\* x ** n for a float x > 0 and an int n >= 0: the exact power, rounded once
FPow(x, n) == RoundToDouble(FALSE, BNPow(x.m, n), x.e * n, FALSE)

FIsNegative(d) == d.neg /\ d.m # <<>>

FLt(a, b) == FIsNegative(FSub(a, b))

\* Python's min(a, b): b only when b < a
FMin(a, b) == IF FLt(b, a) THEN b ELSE a

\* int(a): truncation toward zero
Signed(neg, n) == IF neg THEN -n ELSE n

FTrunc(a) ==
  Signed(a.neg, BNToInt(IF a.e >= 0 THEN BNShl(a.m, a.e) ELSE BNShr(a.m, -a.e)))


(***************************************************************************)
(* Python values.  A dict is a function whose domain is the set of keys    *)
(* present, so that d.get(k, default) can tell a missing key from a        *)
(* present one.  A list of which the code reads only len() (the passes,    *)
(* the nodes of an item) is held as its length.                            *)
(***************************************************************************)
DictGet(d, k, default) == IF k \in DOMAIN d THEN d[k] ELSE default

\* str.lower() on the impact vocabulary of the inputs
Lower(s) ==
  IF s = "Critical" THEN "critical" ELSE s

Max(a, b) == IF a > b THEN a ELSE b
Min(a, b) == IF a < b THEN a ELSE b

(***************************************************************************)
(* Policy A: AccessibilityChecker._calculate_score                         *)
(***************************************************************************)
\* the deduction of one violation (the if/elif chain of the loop body)
PenaltyA(v) ==
  LET impact == Lower(DictGet(v, "impact", "moderate")) IN
  IF impact = "critical" THEN 15
  ELSE IF impact = "serious" THEN 10
  ELSE IF impact = "moderate" THEN 7
  ELSE 4

\* for v in violations: score -= ...
RECURSIVE DeductViolationsA(_, _, _)
DeductViolationsA(violations, i, score) ==
  IF i > Len(violations) THEN score
  ELSE DeductViolationsA(violations, i + 1, score - PenaltyA(violations[i]))

\* variant: the bonus from a pass rate of 0.95 on (>= for >)
HighPassRate_AtLeast(passes, total) == ~FLt(FDivInt(passes, total), FDivInt(95, 100))

\* if pass_rate > 0.95, with pass_rate = len(passes) / total
HighPassRate(passes, total) == FLt(FDivInt(95, 100), FDivInt(passes, total))

\* variants: no floor; the floor at 80
ClampA_NoFloor(score) == Min(100, score)
ClampA_Floor80(score) == Max(80, Min(100, score))

\* score = max(60, min(100, score))
ClampA(score) == Max(60, Min(100, score))

\* score before the clamp, for total > 0
RawScoreA(violations, incomplete, passes) ==
  LET total == Len(violations) + Len(incomplete) + passes
      s1 == DeductViolationsA(violations, 1, 100)
      s2 == s1 - Len(incomplete) * 3
  IN  IF HighPassRate(passes, total) THEN s2 + 5 ELSE s2

AccessibilityChecker_calculate_score(violations, incomplete, passes) ==
  LET total == Len(violations) + Len(incomplete) + passes IN
  IF total = 0 THEN 100
  ELSE ClampA(RawScoreA(violations, incomplete, passes))

(***************************************************************************)
(* Policy B: AccessibilityScorer.calculate_score                           *)
(***************************************************************************)
WeightB(v) ==
  LET impact == Lower(DictGet(v, "impact", "moderate")) IN
  IF impact = "critical" THEN FDivInt(8, 10)
  ELSE IF impact = "serious" THEN FDivInt(6, 10)
  ELSE IF impact = "moderate" THEN FDivInt(4, 10)
  ELSE FDivInt(2, 10)

\* variant: 0.9 ** nodes_count for 1 - 0.9 ** nodes_count
NodeFactor_Decaying(nodes_count) ==
  FMin(FromInt(1),
       FAdd(FDivInt(2, 10),
            FMul(FDivInt(8, 10), FPow(FDivInt(9, 10), nodes_count))))

\* min(1.0, 0.2 + (0.8 * (1 - 0.9 ** nodes_count)))
NodeFactor(nodes_count) ==
  FMin(FromInt(1),
       FAdd(FDivInt(2, 10),
            FMul(FDivInt(8, 10),
                 FSub(FromInt(1), FPow(FDivInt(9, 10), nodes_count)))))

\* deduction = 10 * weight * node_factor
DeductionB(v) ==
  FMul(FMul(FromInt(10), WeightB(v)), NodeFactor(DictGet(v, "nodes", 0)))

\* 2 * min(1.0, 0.5 * (1 - 0.95 ** len(item.get("nodes", []))))
IncompleteDeductionB(item) ==
  FMul(FromInt(2),
       FMin(FromInt(1),
            FMul(FDivInt(5, 10),
                 FSub(FromInt(1), FPow(FDivInt(95, 100), DictGet(item, "nodes", 0))))))

\* variant: base_score += deduction
SubtractB_Added(base_score, deduction) == FAdd(base_score, deduction)

\* base_score -= deduction
SubtractB(base_score, deduction) == FSub(base_score, deduction)

\* a loop "for x in xs: base_score -= d(x)"; base_score is computed before
\* the next iteration, as in the code
RECURSIVE DeductViolationsB(_, _, _)
DeductViolationsB(violations, i, base_score) ==
  IF i > Len(violations) THEN base_score
  ELSE LET next == SubtractB(base_score, DeductionB(violations[i]))
       IN  IF next.e \in Int
           THEN DeductViolationsB(violations, i + 1, next)
           ELSE next

RECURSIVE DeductIncompleteB(_, _, _)
DeductIncompleteB(incomplete, i, base_score) ==
  IF i > Len(incomplete) THEN base_score
  ELSE LET next == FSub(base_score, IncompleteDeductionB(incomplete[i]))
       IN  IF next.e \in Int
           THEN DeductIncompleteB(incomplete, i + 1, next)
           ELSE next

\* variant: base_score += pass_bonus, without the cap
BaseScoreB_UncappedBonus(violations, incomplete, passes) ==
  FAdd(DeductIncompleteB(incomplete, 1, DeductViolationsB(violations, 1, FromInt(100))),
       FMul(FromInt(passes), FDivInt(5, 10)))

\* base_score after "base_score += min(20, pass_bonus)", before int() and
\* the clamp
BaseScoreB(violations, incomplete, passes) ==
  LET b1 == DeductViolationsB(violations, 1, FromInt(100))
      b2 == DeductIncompleteB(incomplete, 1, b1)
      pass_bonus == FMul(FromInt(passes), FDivInt(5, 10))
  IN  FAdd(b2, FMin(FromInt(20), pass_bonus))

\* variant: no floor
ClampB_NoFloor(score) == Min(100, score)

\* max(0, min(100, int(base_score))), applied to int(base_score)
ClampB(score) == Max(0, Min(100, score))

AccessibilityScorer_calculate_score(violations, incomplete, passes) ==
  LET total_checks == Len(violations) + Len(incomplete) + passes IN
  IF total_checks = 0 THEN 100
  ELSE ClampB(FTrunc(BaseScoreB(violations, incomplete, passes)))

(***************************************************************************)
(* Policy C: PDFAccessibilityChecker._calculate_score                      *)
(***************************************************************************)
NoType == "<None>"

RECURSIVE DeductIssuesC(_, _, _)
DeductIssuesC(issues, i, score) ==
  IF i > Len(issues) THEN score
  ELSE LET type == DictGet(issues[i], "type", NoType)
       IN  DeductIssuesC(issues, i + 1,
             IF type = "critical" THEN score - 15
             ELSE IF type = "warning" THEN score - 5
             ELSE score)

\* variants: no floor; no ceiling
ClampC_NoFloor(score) == IF score > 100 THEN 100 ELSE score
ClampC_NoCeiling(score) == IF score < 30 THEN 30 ELSE score

\* if score < 30: score = 30;  if score > 100: score = 100
ClampC(score) ==
  LET s == IF score < 30 THEN 30 ELSE score
  IN  IF s > 100 THEN 100 ELSE s

\* variant: the content bonus from 10 elements on (>= for >)
RawScoreC_BonusAt10(issues, element_count) ==
  LET s1 == DeductIssuesC(issues, 1, 100)
  IN  IF element_count >= 10 THEN s1 + 5 ELSE s1

\* score before the clamps
RawScoreC(issues, element_count) ==
  LET s1 == DeductIssuesC(issues, 1, 100)
  IN  IF element_count > 10 THEN s1 + 5 ELSE s1

PDFAccessibilityChecker_calculate_score(issues, element_count) ==
  ClampC(RawScoreC(issues, element_count))

(***************************************************************************)
(* Results.  A text the code slices or joins (an error message, a          *)
(* description, a summary) is a sequence of characters; every other text   *)
(* is a string.                                                            *)
(***************************************************************************)
\* s[:n]
Take(s, n) == SubSeq(s, 1, Min(n, Len(s)))

\* variant: the description is the whole message
AccessibilityChecker_error_result_Untruncated(url, error) ==
  [url |-> url,
   score |-> 0,
   issues |-> << [type |-> "critical",
                  title |-> "Analysis Failed",
                  count |-> 1,
                  description |-> error,
                  fix |-> "Try again with a different URL",
                  category |-> "Error"] >>,
   summary |-> <<"F", "a", "i", "l", "e", "d", ":", " ">> \o Take(error, 50),
   method |-> "error"]

\* AccessibilityChecker._error_result
AccessibilityChecker_error_result(url, error) ==
  [url |-> url,
   score |-> 0,
   issues |-> << [type |-> "critical",
                  title |-> "Analysis Failed",
                  count |-> 1,
                  description |-> Take(error, 100),
                  fix |-> "Try again with a different URL",
                  category |-> "Error"] >>,
   summary |-> <<"F", "a", "i", "l", "e", "d", ":", " ">> \o Take(error, 50),
   method |-> "error"]

\* PDFAccessibilityChecker._error_result (the second definition of the class
\* body, which replaces the first; the two are alike)
PDFAccessibilityChecker_error_result(filename, error) ==
  [filename |-> filename,
   score |-> 0,
   issues |-> << [type |-> "critical",
                  title |-> "Analysis Failed",
                  count |-> 1,
                  description |-> Take(error, 100),
                  fix |-> "Try a different file or format",
                  category |-> "Error"] >>,
   summary |-> <<"A", "n", "a", "l", "y", "s", "i", "s", " ", "f", "a", "i", "l", "e", "d", ":", " ">> \o Take(error, 50),
   method |-> "error"]

(***************************************************************************)
(* PDFAccessibilityChecker.analyze_document.  The parsers (PyPDF2, open)   *)
(* are outside the program: a call is given what the parser does with the  *)
(* file, either the exception it raises or the facts the code reads off    *)
(* the parsed file.                                                        *)
(***************************************************************************)
UpperLetters == <<"A", "B", "C", "D", "E", "F", "G", "H", "I", "J", "K", "L", "M", "N", "O",
                 "P", "Q", "R", "S", "T", "U", "V", "W", "X", "Y", "Z">>
LowerLetters == <<"a", "b", "c", "d", "e", "f", "g", "h", "i", "j", "k", "l", "m", "n", "o",
                 "p", "q", "r", "s", "t", "u", "v", "w", "x", "y", "z">>

\* str.lower() on a text
LowerChar(c) ==
  IF \E i \in 1..26 : UpperLetters[i] = c
  THEN LowerLetters[CHOOSE i \in 1..26 : UpperLetters[i] = c]
  ELSE c
LowerText(s) == [i \in 1..Len(s) |-> LowerChar(s[i])]

\* str(n) of an int n >= 0, as an f-string formats it
Digits == <<"0", "1", "2", "3", "4", "5", "6", "7", "8", "9">>
RECURSIVE IntText(_)
IntText(n) == IF n < 10 THEN <<Digits[n + 1]>> ELSE IntText(n \div 10) \o <<Digits[(n % 10) + 1]>>

\* an exception that leaves the call
Raised(exception) == [method |-> "raised", exception |-> exception]

\* the findings of _analyze_pdf, in the order of the checks
IssuesPdf(pdf) ==
  (IF ~pdf.title
   THEN << [type |-> "critical",
            title |-> "Missing Document Title",
            count |-> 1,
            description |-> <<"P", "D", "F", " ", "m", "i", "s", "s", "i", "n", "g", " ", "t", "i",
                             "t", "l", "e", " ", "i", "n", " ", "d", "o", "c", "u", "m", "e", "n",
                             "t", " ", "p", "r", "o", "p", "e", "r", "t", "i", "e", "s">>,
            fix |-> "Add a title in PDF properties (File → Properties)",
            category |-> "Document Structure"] >>
   ELSE <<>>)
  \o
  (IF ~pdf.outline
   THEN << [type |-> "warning",
            title |-> "No Document Bookmarks",
            count |-> 1,
            description |-> <<"P", "D", "F", " ", "l", "a", "c", "k", "s", " ", "b", "o", "o", "k",
                             "m", "a", "r", "k", "s", " ", "f", "o", "r", " ", "n", "a", "v", "i",
                             "g", "a", "t", "i", "o", "n">>,
            fix |-> "Add bookmarks for major sections",
            category |-> "Navigation"] >>
   ELSE <<>>)
  \o
  (IF ~pdf.has_text
   THEN << [type |-> "critical",
            title |-> "Scanned/Image PDF",
            count |-> 1,
            description |-> <<"P", "D", "F", " ", "a", "p", "p", "e", "a", "r", "s", " ", "t", "o",
                             " ", "b", "e", " ", "s", "c", "a", "n", "n", "e", "d", " ", "i", "m",
                             "a", "g", "e", "s", " ", "w", "i", "t", "h", "o", "u", "t", " ", "s",
                             "e", "l", "e", "c", "t", "a", "b", "l", "e", " ", "t", "e", "x", "t">>,
            fix |-> "Use OCR to create searchable text",
            category |-> "Text"] >>
   ELSE <<>>)

\* the record _analyze_pdf returns on a PDF that was read
ResultPdf(filename, pdf, issues) ==
  [filename |-> filename,
   score |-> PDFAccessibilityChecker_calculate_score(issues, pdf.pages),
   issues |-> issues,
   page_count |-> pdf.pages,
   has_text |-> pdf.has_text,
   summary |-> <<"P", "D", "F", " ", "a", "n", "a", "l", "y", "s", "i", "s", ":", " ">> \o IntText(Len(issues))
                 \o <<" ", "i", "s", "s", "u", "e", "s", " ", "f", "o", "u", "n", "d", " ",
                      "a", "c", "r", "o", "s", "s", " ">> \o IntText(pdf.pages)
                 \o <<" ", "p", "a", "g", "e", "s">>,
   method |-> "pdf-analysis"]

PDFAccessibilityChecker_analyze_pdf(filename, pdf) ==
  IF pdf.raises
  THEN PDFAccessibilityChecker_error_result(filename, <<"P", "D", "F", " ", "a", "n", "a", "l", "y", "s", "i", "s", " ", "e",
    "r", "r", "o", "r", ":", " ">> \o pdf.message)
  ELSE ResultPdf(filename, pdf, IssuesPdf(pdf))

\* the findings of _analyze_text
IssuesText(txt) ==
  (IF txt.chars > 1000 /\ txt.blank_runs
   THEN << [type |-> "warning",
            title |-> "Poor Paragraph Spacing",
            count |-> 1,
            description |-> <<"T", "e", "x", "t", " ", "f", "i", "l", "e", " ", "h", "a", "s", " ",
                             "e", "x", "c", "e", "s", "s", "i", "v", "e", " ", "b", "l", "a", "n",
                             "k", " ", "l", "i", "n", "e", "s">>,
            fix |-> "Use consistent single blank lines between paragraphs",
            category |-> "Formatting"] >>
   ELSE <<>>)
  \o
  (IF txt.long_lines > 0
   THEN << [type |-> "warning",
            title |-> "Long Lines",
            count |-> txt.long_lines,
            description |-> IntText(txt.long_lines) \o <<" ", "l", "i", "n", "e", "(", "s", ")", " ", "e", "x", "c", "e", "e",
              "d", " ", "1", "0", "0", " ", "c", "h", "a", "r", "a", "c", "t", "e",
              "r", "s">>,
            fix |-> "Break long lines for better readability",
            category |-> "Readability"] >>
   ELSE <<>>)

ResultText(filename, txt, issues) ==
  [filename |-> filename,
   score |-> PDFAccessibilityChecker_calculate_score(issues, txt.lines),
   issues |-> issues,
   line_count |-> txt.lines,
   char_count |-> txt.chars,
   summary |-> <<"T", "e", "x", "t", " ", "f", "i", "l", "e", " ", "a", "n", "a", "l",
                 "y", "s", "i", "s", ":", " ">> \o IntText(Len(issues)) \o <<" ", "i", "s", "s", "u", "e", "s", " ", "f", "o", "u", "n", "d">>,
   method |-> "text-analysis"]

PDFAccessibilityChecker_analyze_text(filename, txt) ==
  IF txt.raises
  THEN PDFAccessibilityChecker_error_result(filename, <<"T", "e", "x", "t", " ", "a", "n", "a", "l", "y", "s", "i", "s", " ",
    "e", "r", "r", "o", "r", ":", " ">> \o txt.message)
  ELSE ResultText(filename, txt, IssuesText(txt))

\* os.path.splitext(filename)[1] of a name without directory separators:
\* the text from the last dot on, unless only dots come before that dot
LastDot(name) ==
  IF \E i \in 1..Len(name) : name[i] = "."
  THEN CHOOSE i \in 1..Len(name) :
         name[i] = "." /\ \A j \in (i + 1)..Len(name) : name[j] # "."
  ELSE 0
SplitExt(name) ==
  IF \E i \in 1..(LastDot(name) - 1) : name[i] # "."
  THEN SubSeq(name, LastDot(name), Len(name))
  ELSE <<>>

\* parsed is what the parser of that kind of file does.  _analyze_word is defined inside analyze_document
\* after its last return, so the class has no such method and the lookup
\* self._analyze_word raises AttributeError, outside any try.
AnalyzeByExtension(filename, file_ext, parsed) ==
  IF file_ext = <<".", "p", "d", "f">>
  THEN PDFAccessibilityChecker_analyze_pdf(filename, parsed)
  ELSE IF file_ext \in {<<".", "d", "o", "c">>, <<".", "d", "o", "c", "x">>}
  THEN Raised("AttributeError")
  ELSE IF file_ext = <<".", "t", "x", "t">>
  THEN PDFAccessibilityChecker_analyze_text(filename, parsed)
  ELSE PDFAccessibilityChecker_error_result(filename, <<"U", "n", "s", "u", "p", "p", "o", "r", "t", "e", "d", " ", "f", "i",
    "l", "e", " ", "t", "y", "p", "e", ":", " ">> \o file_ext)

PDFAccessibilityChecker_analyze_document(filename, parsed) ==
  AnalyzeByExtension(filename, LowerText(SplitExt(filename)), parsed)

(***************************************************************************)
(* AccessibilityChecker.check_url.  The browser scan and the HTTP fetch    *)
(* are outside the program: a call is given what each of them does, the    *)
(* exception it raises or the data it delivers.                            *)
(***************************************************************************)
IsUpper(c) == \E i \in 1..26 : UpperLetters[i] = c
IsLower(c) == \E i \in 1..26 : LowerLetters[i] = c
IsCased(c) == IsUpper(c) \/ IsLower(c)
UpperChar(c) ==
  IF IsLower(c) THEN UpperLetters[CHOOSE i \in 1..26 : LowerLetters[i] = c] ELSE c

\* str.replace("-", " ")
ReplaceDash(s) == [i \in 1..Len(s) |-> IF s[i] = "-" THEN " " ELSE s[i]]

\* str.title(): a letter after a letter is lowercased, any other letter
\* uppercased
TitleText(s) ==
  [i \in 1..Len(s) |->
     IF i > 1 /\ IsCased(s[i - 1]) THEN LowerChar(s[i]) ELSE UpperChar(s[i])]

\* x in a list
InList(x, list) == \E i \in 1..Len(list) : list[i] = x

\* variant: the table without the entry of "label"
AccessibilityChecker_get_fix_suggestion_NoLabel(issue_id) ==
  IF issue_id = <<"d", "o", "c", "u", "m", "e", "n", "t", "-", "t", "i", "t", "l", "e">>
  THEN "Add a descriptive <title> element in the <head> section."
  ELSE IF issue_id = <<"i", "m", "a", "g", "e", "-", "a", "l", "t">>
  THEN "Add alt text to images. Use alt='' for decorative images."
  ELSE IF issue_id = <<"h", "t", "m", "l", "-", "h", "a", "s", "-", "l", "a", "n", "g">>
  THEN "Add lang attribute to <html> tag, e.g., <html lang='en'>."
  ELSE IF issue_id = <<"c", "o", "l", "o", "r", "-", "c", "o", "n", "t", "r", "a", "s", "t">>
  THEN "Increase color contrast ratio to at least 4.5:1."
  ELSE IF issue_id = <<"l", "i", "n", "k", "-", "n", "a", "m", "e">>
  THEN "Links should have descriptive text content."
  ELSE IF issue_id = <<"b", "u", "t", "t", "o", "n", "-", "n", "a", "m", "e">>
  THEN "Buttons should have accessible names."
  ELSE IF issue_id = <<"a", "r", "i", "a", "-", "h", "i", "d", "d", "e", "n", "-", "f", "o", "c", "u", "s">>
  THEN "Don't hide focusable elements from screen readers."
  ELSE "Review WCAG guidelines and fix accordingly."

AccessibilityChecker_get_fix_suggestion(issue_id) ==
  IF issue_id = <<"d", "o", "c", "u", "m", "e", "n", "t", "-", "t", "i", "t", "l", "e">>
  THEN "Add a descriptive <title> element in the <head> section."
  ELSE IF issue_id = <<"i", "m", "a", "g", "e", "-", "a", "l", "t">>
  THEN "Add alt text to images. Use alt='' for decorative images."
  ELSE IF issue_id = <<"h", "t", "m", "l", "-", "h", "a", "s", "-", "l", "a", "n", "g">>
  THEN "Add lang attribute to <html> tag, e.g., <html lang='en'>."
  ELSE IF issue_id = <<"c", "o", "l", "o", "r", "-", "c", "o", "n", "t", "r", "a", "s", "t">>
  THEN "Increase color contrast ratio to at least 4.5:1."
  ELSE IF issue_id = <<"l", "i", "n", "k", "-", "n", "a", "m", "e">>
  THEN "Links should have descriptive text content."
  ELSE IF issue_id = <<"b", "u", "t", "t", "o", "n", "-", "n", "a", "m", "e">>
  THEN "Buttons should have accessible names."
  ELSE IF issue_id = <<"l", "a", "b", "e", "l">>
  THEN "Form inputs should have associated <label> elements."
  ELSE IF issue_id = <<"a", "r", "i", "a", "-", "h", "i", "d", "d", "e", "n", "-", "f", "o", "c", "u", "s">>
  THEN "Don't hide focusable elements from screen readers."
  ELSE "Review WCAG guidelines and fix accordingly."

\* variant: forms looked up before color
AccessibilityChecker_get_category_FormsFirst(tags) ==
  IF InList("cat.forms", tags) THEN "Forms"
  ELSE IF InList("cat.color", tags) THEN "Color"
  ELSE IF InList("cat.images", tags) THEN "Images"
  ELSE IF InList("cat.language", tags) THEN "Language"
  ELSE IF InList("cat.structure", tags) THEN "Structure"
  ELSE "General"

AccessibilityChecker_get_category(tags) ==
  IF InList("cat.color", tags) THEN "Color"
  ELSE IF InList("cat.forms", tags) THEN "Forms"
  ELSE IF InList("cat.images", tags) THEN "Images"
  ELSE IF InList("cat.language", tags) THEN "Language"
  ELSE IF InList("cat.structure", tags) THEN "Structure"
  ELSE "General"

\* emoji and text of the summary; a character outside the alphabet of the
\* module is written as its code point
SummaryGrade(score) ==
  IF score >= 90 THEN <<"U+2705", " ">> \o <<"E", "x", "c", "e", "l", "l", "e", "n", "t">>
  ELSE IF score >= 70 THEN <<"U+26A0", "U+FE0F", " ">> \o <<"G", "o", "o", "d">>
  ELSE IF score >= 50 THEN <<"U+1F527", " ">> \o <<"N", "e", "e", "d", "s", " ", "W", "o", "r", "k">>
  ELSE <<"U+274C", " ">> \o <<"P", "o", "o", "r">>

AccessibilityChecker_generate_summary(violations, incomplete, score) ==
  SummaryGrade(score) \o <<" ", "-", " ", "S", "c", "o", "r", "e", ":", " ">> \o IntText(score)
    \o <<"/", "1", "0", "0", ".", " ">> \o IntText(Len(violations))
    \o <<" ", "v", "i", "o", "l", "a", "t", "i", "o", "n", "s", ",", " ">> \o IntText(Len(incomplete))
    \o <<" ", "w", "a", "r", "n", "i", "n", "g", "s", ".">>

\* variant: the type of the finding follows the impact of the violation
ViolationIssue_TypeByImpact(violation) ==
  [type |-> IF DictGet(violation, "impact", "moderate") \in {"critical", "serious"}
            THEN "critical" ELSE "warning",
   title |-> TitleText(ReplaceDash(DictGet(violation, "id", <<"V", "i", "o", "l", "a", "t", "i", "o", "n">>))),
   count |-> DictGet(violation, "nodes", 0),
   description |-> DictGet(violation, "description", <<>>),
   help |-> DictGet(violation, "help", ""),
   helpUrl |-> DictGet(violation, "helpUrl", ""),
   impact |-> DictGet(violation, "impact", "moderate"),
   fix |-> AccessibilityChecker_get_fix_suggestion(DictGet(violation, "id", <<>>)),
   category |-> AccessibilityChecker_get_category(DictGet(violation, "tags", <<>>)),
   nodes |-> Min(DictGet(violation, "nodes", 0), 2)]

\* the finding made of one violation; the nodes of an item are held as
\* their number, so nodes[:2] is the smaller of that number and 2
ViolationIssue(violation) ==
  [type |-> "critical",
   title |-> TitleText(ReplaceDash(DictGet(violation, "id", <<"V", "i", "o", "l", "a", "t", "i", "o", "n">>))),
   count |-> DictGet(violation, "nodes", 0),
   description |-> DictGet(violation, "description", <<>>),
   help |-> DictGet(violation, "help", ""),
   helpUrl |-> DictGet(violation, "helpUrl", ""),
   impact |-> DictGet(violation, "impact", "moderate"),
   fix |-> AccessibilityChecker_get_fix_suggestion(DictGet(violation, "id", <<>>)),
   category |-> AccessibilityChecker_get_category(DictGet(violation, "tags", <<>>)),
   nodes |-> Min(DictGet(violation, "nodes", 0), 2)]

\* the finding made of one incomplete item
IncompleteIssue(item) ==
  [type |-> "warning",
   title |-> TitleText(ReplaceDash(DictGet(item, "id", <<"R", "e", "v", "i", "e", "w">>))),
   count |-> DictGet(item, "nodes", 0),
   description |-> <<"N", "e", "e", "d", "s", " ", "r", "e", "v", "i", "e",
                    "w", ":", " ">> \o DictGet(item, "description", <<>>),
   impact |-> DictGet(item, "impact", "moderate"),
   fix |-> "Manual review required.",
   category |-> AccessibilityChecker_get_category(DictGet(item, "tags", <<>>))]

IssuesAxe(violations, incomplete) ==
  [i \in 1..Len(violations) |-> ViolationIssue(violations[i])]
    \o [i \in 1..Len(incomplete) |-> IncompleteIssue(incomplete[i])]

ResultAxe(url, violations, incomplete, passes, score) ==
  [url |-> url,
   score |-> score,
   issues |-> Take(IssuesAxe(violations, incomplete), 20),
   summary |-> AccessibilityChecker_generate_summary(violations, incomplete, score),
   method |-> "axe-core",
   violation_count |-> Len(violations),
   warning_count |-> Len(incomplete),
   pass_count |-> passes]

\* passes is held as len(axe_data["passes"])
AccessibilityChecker_process_axe_results(url, axe_data) ==
  ResultAxe(url,
            DictGet(axe_data, "violations", <<>>),
            DictGet(axe_data, "incomplete", <<>>),
            DictGet(axe_data, "passes", 0),
            AccessibilityChecker_calculate_score(
              DictGet(axe_data, "violations", <<>>),
              DictGet(axe_data, "incomplete", <<>>),
              DictGet(axe_data, "passes", 0)))

\* the findings of the simple check of a fetched page
IssuesSimple(page) ==
  (IF page.images_no_alt > 0
   THEN << [type |-> "critical",
            title |-> "Missing Image Alt Text",
            count |-> page.images_no_alt,
            description |-> <<"I", "m", "a", "g", "e", "s", " ", "w", "i",
                             "t", "h", "o", "u", "t", " ", "a", "l", "t",
                             " ", "t", "e", "x", "t">>,
            fix |-> "Add alt='description' to images",
            category |-> "Images"] >>
   ELSE <<>>)
  \o
  (IF ~page.lang
   THEN << [type |-> "critical",
            title |-> "Missing Language Attribute",
            count |-> 1,
            description |-> <<"H", "T", "M", "L", " ", "m", "i", "s", "s",
                             "i", "n", "g", " ", "l", "a", "n", "g", " ",
                             "a", "t", "t", "r", "i", "b", "u", "t", "e">>,
            fix |-> "Add lang='en' to <html> tag",
            category |-> "Page Structure"] >>
   ELSE <<>>)

\* variant: 25 points for a finding of the simple check
ResultSimple_Penalty25(url, issues) ==
  [url |-> url,
   score |-> Max(0, 100 - (Len(issues) * 25)),
   issues |-> issues,
   summary |-> <<"S", "i", "m", "p", "l", "e", " ", "c", "h", "e", "c", "k",
                 " ", "f", "o", "u", "n", "d", " ">> \o IntText(Len(issues)) \o <<" ", "i", "s", "s", "u", "e", "s">>,
   method |-> "simple"]

ResultSimple(url, issues) ==
  [url |-> url,
   score |-> Max(0, 100 - (Len(issues) * 15)),
   issues |-> issues,
   summary |-> <<"S", "i", "m", "p", "l", "e", " ", "c", "h", "e", "c", "k",
                 " ", "f", "o", "u", "n", "d", " ">> \o IntText(Len(issues)) \o <<" ", "i", "s", "s", "u", "e", "s">>,
   method |-> "simple"]

\* if not url.startswith(('http://', 'https://')): url = 'https://' + url
StartsWith(s, prefix) ==
  Len(s) >= Len(prefix) /\ SubSeq(s, 1, Len(prefix)) = prefix
NormalizeUrl(url) ==
  IF StartsWith(url, <<"h", "t", "t", "p", ":", "/", "/">>) \/ StartsWith(url, <<"h", "t", "t", "p", "s", ":",
                                            "/", "/">>)
  THEN url
  ELSE <<"h", "t", "t", "p", "s", ":", "/", "/">> \o url

\* variant: an exception of the fetch leaves the call
AccessibilityChecker_check_with_simple_Propagates(url, http) ==
  IF http.raises
  THEN Raised("ClientError")
  ELSE IF http.status = 403
  THEN AccessibilityChecker_error_result(url, <<"W", "e", "b", "s", "i", "t", "e", " ", "b", "l", "o",
                      "c", "k", "e", "d", " ", "a", "c", "c", "e", "s", "s",
                      " ", "(", "4", "0", "3", " ", "F", "o", "r", "b", "i",
                      "d", "d", "e", "n", ")">>)
  ELSE IF http.status # 200
  THEN AccessibilityChecker_error_result(url, <<"H", "T", "T", "P", " ">> \o IntText(http.status))
  ELSE ResultSimple(url, IssuesSimple(http))

\* http is what the fetch does: it raises, or it answers with a status and,
\* for status 200, a page
AccessibilityChecker_check_with_simple(url, http) ==
  IF http.raises
  THEN AccessibilityChecker_error_result(url, <<"S", "i", "m", "p", "l", "e", " ", "c", "h", "e", "c",
                      "k", "e", "r", " ", "f", "a", "i", "l", "e", "d", ":",
                      " ">> \o http.message)
  ELSE IF http.status = 403
  THEN AccessibilityChecker_error_result(url, <<"W", "e", "b", "s", "i", "t", "e", " ", "b", "l", "o",
                      "c", "k", "e", "d", " ", "a", "c", "c", "e", "s", "s",
                      " ", "(", "4", "0", "3", " ", "F", "o", "r", "b", "i",
                      "d", "d", "e", "n", ")">>)
  ELSE IF http.status # 200
  THEN AccessibilityChecker_error_result(url, <<"H", "T", "T", "P", " ">> \o IntText(http.status))
  ELSE ResultSimple(url, IssuesSimple(http))

\* scan is what _check_with_playwright does: an exception of the browser,
\* the navigation, the axe run or the processing, or the axe data
\* variant: a failed scan is answered with the error result, no fallback
CheckNormalized_NoFallback(url, available, scan, http) ==
  IF available /\ scan.raises
  THEN AccessibilityChecker_error_result(url, <<"P", "l", "a", "y", "w", "r", "i",
                                           "g", "h", "t", " ", "f", "a", "i",
                                           "l", "e", "d">>)
  ELSE IF available
  THEN AccessibilityChecker_process_axe_results(url, scan.axe_data)
  ELSE AccessibilityChecker_check_with_simple(url, http)

CheckNormalized(url, available, scan, http) ==
  IF available /\ ~scan.raises
  THEN AccessibilityChecker_process_axe_results(url, scan.axe_data)
  ELSE AccessibilityChecker_check_with_simple(url, http)

AccessibilityChecker_check_url(url, available, scan, http) ==
  CheckNormalized(NormalizeUrl(url), available, scan, http)

(***************************************************************************)
(* The clock.  datetime.now() is the local wall clock without a time zone; *)
(* an instant is held as its seconds since 1970-01-01 00:00:00 in that     *)
(* clock, so that timedelta(days = n) adds n * 86400.  The calendar is the *)
(* proleptic Gregorian one of datetime.                                    *)
(***************************************************************************)
SecondsPerDay == 86400

\* the day number of a date (days since 1970-01-01)
DayOfYearFromMarch(m, d) ==
  ((153 * (IF m > 2 THEN m - 3 ELSE m + 9) + 2) \div 5) + d - 1
DayOfEra(yoe, doy) == yoe * 365 + (yoe \div 4) - (yoe \div 100) + doy
DaysFromMarchYear(y, m, d) ==
  (y \div 400) * 146097 + DayOfEra(y % 400, DayOfYearFromMarch(m, d)) - 719468
DaysFromCivil(y, m, d) ==
  DaysFromMarchYear(IF m <= 2 THEN y - 1 ELSE y, m, d)

\* the date of a day number
YearOfEra(doe) ==
  (doe - (doe \div 1460) + (doe \div 36524) - (doe \div 146096)) \div 365
DayOfMarchYear(doe, yoe) == doe - (365 * yoe + (yoe \div 4) - (yoe \div 100))
CivilOfMonth(y, mp, doy) ==
  [year |-> IF mp < 10 THEN y ELSE y + 1,
   month |-> IF mp < 10 THEN mp + 3 ELSE mp - 9,
   day |-> doy - ((153 * mp + 2) \div 5) + 1]
CivilOfDayOfYear(y, doy) == CivilOfMonth(y, (5 * doy + 2) \div 153, doy)
CivilOfEra(era, doe) ==
  CivilOfDayOfYear(YearOfEra(doe) + era * 400, DayOfMarchYear(doe, YearOfEra(doe)))
CivilFromDays(z) ==
  CivilOfEra((z + 719468) \div 146097, (z + 719468) % 146097)

\* datetime(y, m, d, hh, mm, ss)
Instant(y, m, d, hh, mm, ss) ==
  DaysFromCivil(y, m, d) * SecondsPerDay + hh * 3600 + mm * 60 + ss

\* t + timedelta(days = n)
PlusDays(t, n) == t + n * SecondsPerDay

\* a number in at least width digits, as %m, %d, %H, %M, %S and %Y print it
RECURSIVE Pad(_, _)
Pad(text, width) == IF Len(text) >= width THEN text ELSE Pad(<<"0">> \o text, width)

\* strftime("%Y-%m-%d") and strftime("%Y%m%d") of a date
DashedDate(c) ==
  Pad(IntText(c.year), 4) \o <<"-">> \o Pad(IntText(c.month), 2)
    \o <<"-">> \o Pad(IntText(c.day), 2)
CompactDate(c) ==
  Pad(IntText(c.year), 4) \o Pad(IntText(c.month), 2) \o Pad(IntText(c.day), 2)

\* %H, %M, %S of the second of the day
Hours(s) == Pad(IntText(s \div 3600), 2)
Minutes(s) == Pad(IntText((s % 3600) \div 60), 2)
Seconds(s) == Pad(IntText(s % 60), 2)

\* strftime("%Y-%m-%d")
FormatDate(t) == DashedDate(CivilFromDays(t \div SecondsPerDay))

\* strftime("%Y%m%d_%H%M%S")
FormatTimestamp(t) ==
  CompactDate(CivilFromDays(t \div SecondsPerDay)) \o <<"_">>
    \o Hours(t % SecondsPerDay) \o Minutes(t % SecondsPerDay) \o Seconds(t % SecondsPerDay)

\* strftime("%Y-%m-%d %H:%M:%S")
FormatDateTime(t) ==
  FormatDate(t) \o <<" ">> \o Hours(t % SecondsPerDay) \o <<":">>
    \o Minutes(t % SecondsPerDay) \o <<":">> \o Seconds(t % SecondsPerDay)

(***************************************************************************)
(* UniversityComplianceTracker: the classification of a result.            *)
(***************************************************************************)
\* variant: the top band from 96 on (> for >=)
UniversityComplianceTracker_get_compliance_status_Above95(score) ==
  IF score > 95 THEN "COMPLIANT - Excellent"
  ELSE IF score >= 90 THEN "COMPLIANT - Good"
  ELSE IF score >= 80 THEN "PARTIALLY COMPLIANT - Needs Improvement"
  ELSE IF score >= 70 THEN "NON-COMPLIANT - Significant Issues"
  ELSE "NON-COMPLIANT - Critical Remediation Required"

UniversityComplianceTracker_get_compliance_status(score) ==
  IF score >= 95 THEN "COMPLIANT - Excellent"
  ELSE IF score >= 90 THEN "COMPLIANT - Good"
  ELSE IF score >= 80 THEN "PARTIALLY COMPLIANT - Needs Improvement"
  ELSE IF score >= 70 THEN "NON-COMPLIANT - Significant Issues"
  ELSE "NON-COMPLIANT - Critical Remediation Required"

\* variant: the tag alone decides, whatever the type of the finding
CriticalAA_AnyType(issue) ==
  InList("wcag2aa", DictGet(issue, "tags", <<>>))

\* "wcag2aa" in tags and issue.get("type") == "critical"
CriticalAA(issue) ==
  /\ InList("wcag2aa", DictGet(issue, "tags", <<>>))
  /\ DictGet(issue, "type", NoType) = "critical"

\* for issue in issues: return at the first critical finding tagged wcag2aa
RECURSIVE DetermineFrom(_, _)
DetermineFrom(issues, i) ==
  IF i > Len(issues) THEN "WCAG 2.1 AA (Target)"
  ELSE IF CriticalAA(issues[i]) THEN "WCAG 2.0 A (Minimum)"
  ELSE DetermineFrom(issues, i + 1)

UniversityComplianceTracker_determine_wcag_level(issues) == DetermineFrom(issues, 1)

(***************************************************************************)
(* UniversityComplianceTracker.generate_report.  Each datetime.now() of    *)
(* the code is a read of the clock at the moment the line runs.            *)
(***************************************************************************)
\* str.upper() on the types of the findings
UpperType(s) ==
  IF s = "critical" THEN "CRITICAL"
  ELSE IF s = "warning" THEN "WARNING"
  ELSE IF s = "info" THEN "INFO"
  ELSE s

\* f"{self.output_dir}/compliance_{timestamp}" with the default output_dir
BaseName(timestamp) ==
  <<"c", "o", "m", "p", "l", "i", "a", "n", "c", "e", "_", "r", "e", "p",
    "o", "r", "t", "s", "/", "c", "o", "m", "p", "l", "i", "a", "n", "c",
    "e", "_">> \o timestamp
JsonFile(timestamp) == BaseName(timestamp) \o <<".", "j", "s", "o", "n">>
CsvFile(timestamp) == BaseName(timestamp) \o <<".", "c", "s", "v">>

\* open(name, 'w') and the writes to it: the file holds content, whatever it
\* held before
WriteFile(files, name, content) ==
  [n \in (DOMAIN files) \cup {name} |-> IF n = name THEN content ELSE files[n]]

\* len([i for i in issues if i.get("type") == "critical"])
CriticalIssues(issues) ==
  Cardinality({i \in 1..Len(issues) : DictGet(issues[i], "type", NoType) = "critical"})

\* now is what datetime.now() returns at line 76
UniversityComplianceTracker_get_next_audit_date(now) == FormatDate(PlusDays(now, 90))

\* the report dict; now is the clock when _get_next_audit_date runs
Report(url, results, department, timestamp, now) ==
  [institution |-> "University Accessibility Audit",
   timestamp |-> timestamp,
   url |-> url,
   department |-> department,
   score |-> DictGet(results, "score", 0),
   compliance_status |->
     UniversityComplianceTracker_get_compliance_status(DictGet(results, "score", 0)),
   wcag_level |->
     UniversityComplianceTracker_determine_wcag_level(DictGet(results, "issues", <<>>)),
   critical_issues |-> CriticalIssues(DictGet(results, "issues", <<>>)),
   total_issues |-> Len(DictGet(results, "issues", <<>>)),
   detailed_issues |-> DictGet(results, "issues", <<>>),
   auditor |-> "A11y Wizard",
   next_audit_date |-> UniversityComplianceTracker_get_next_audit_date(now),
   legal_references |->
     <<"ADA Title II", "Section 508", "WCAG 2.1 AA", "OCR Resolution Agreements">>]

\* the rows of the csv down to the header of the findings; now is the clock
\* when the row "Generated:" is written
CsvSummary(report, now) ==
  [generated |-> FormatDateTime(now),
   url |-> report.url,
   department |-> report.department,
   score |-> IntText(report.score) \o <<"/", "1", "0", "0">>,
   compliance_status |-> report.compliance_status,
   wcag_level |-> report.wcag_level,
   critical_issues |-> report.critical_issues,
   total_issues |-> report.total_issues,
   next_audit_date |-> report.next_audit_date,
   rows |-> <<>>]

\* the due date of a row; now is the clock when the row is written
DueDate(issue, now) ==
  IF DictGet(issue, "type", "warning") = "critical"
  THEN <<"I", "M", "M", "E", "D", "I", "A", "T", "E">>
  ELSE IF DictGet(issue, "type", "warning") = "warning"
  THEN FormatDate(PlusDays(now, 30))
  ELSE FormatDate(PlusDays(now, 60))

CsvRow(issue, now) ==
  [type |-> UpperType(DictGet(issue, "type", "")),
   title |-> DictGet(issue, "title", ""),
   description |-> Take(DictGet(issue, "description", <<>>), 100),
   category |-> DictGet(issue, "category", "General"),
   fix |-> DictGet(issue, "fix", "Review required"),
   due_date |-> DueDate(issue, now)]

AppendRow(csv, row) == [csv EXCEPT !.rows = Append(@, row)]

(***************************************************************************)
(* The handler of POST /analyze/pdf.  It saves the upload to a temporary   *)
(* file, analyses it and answers; files is the temporary directory.        *)
(***************************************************************************)
AllowedTypes == {<<".", "p", "d", "f">>, <<".", "d", "o", "c">>,
                 <<".", "d", "o", "c", "x">>, <<".", "t", "x", "t">>}

\* tmp_file.name of NamedTemporaryFile(delete=False, suffix=file_ext): a
\* name no file of the directory has
TmpPath(files, file_ext) ==
  <<"/", "t", "m", "p", "/", "t", "m", "p">> \o IntText(Cardinality(DOMAIN files)) \o file_ext

\* os.unlink(name)
Unlink(files, name) == [n \in (DOMAIN files) \ {name} |-> files[n]]

\* str(e) of the exception analyze_document raises
ExceptionText(exception) ==
  IF exception = "AttributeError"
  THEN <<"'", "P", "D", "F", "A", "c", "c", "e", "s", "s", "i", "b", "i",
         "l", "i", "t", "y", "C", "h", "e", "c", "k", "e", "r", "'", " ",
         "o", "b", "j", "e", "c", "t", " ", "h", "a", "s", " ", "n", "o",
         " ", "a", "t", "t", "r", "i", "b", "u", "t", "e", " ", "'", "_",
         "a", "n", "a", "l", "y", "z", "e", "_", "w", "o", "r", "d", "'">>
  ELSE <<>>

\* the answer once the upload is analysed: the results, or the answer of
\* the except clause when analyze_document raised
UploadResponse(results) ==
  IF results.method = "raised"
  THEN [status_code |-> 500,
        content |->
          [error |-> <<"F", "a", "i", "l", "e", "d", " ", "t", "o", " ", "a",
                       "n", "a", "l", "y", "z", "e", " ", "d", "o", "c", "u",
                       "m", "e", "n", "t", ":", " ">>
                       \o ExceptionText(results.exception),
           score |-> 0,
           issues |-> <<>>,
           summary |-> "Document analysis failed"]]
  ELSE [status_code |-> 200, content |-> results]

UnsupportedResponse(file_ext) ==
  [status_code |-> 400,
   content |->
     [error |-> <<"F", "i", "l", "e", " ", "t", "y", "p", "e", " ">> \o file_ext
                  \o <<" ", "n", "o", "t", " ", "s", "u", "p", "p", "o", "r",
                       "t", "e", "d">>,
      score |-> 0,
      issues |-> <<>>,
      summary |-> <<"U", "n", "s", "u", "p", "p", "o", "r", "t", "e", "d",
                       " ", "f", "i", "l", "e", " ", "t", "y", "p", "e", ":",
                       " ">>
                    \o file_ext]]

\* the response of the handler to an upload
analyze_pdf(filename, parsed) ==
  IF LowerText(SplitExt(filename)) \notin AllowedTypes
  THEN UnsupportedResponse(LowerText(SplitExt(filename)))
  ELSE UploadResponse(PDFAccessibilityChecker_analyze_document(filename, parsed))

\* the temporary directory when the handler has answered: os.unlink comes
\* after the analysis inside the try, so it is skipped when the analysis
\* raises
TempFilesAfter(files, filename, parsed) ==
  IF LowerText(SplitExt(filename)) \notin AllowedTypes
  THEN files
  ELSE IF PDFAccessibilityChecker_analyze_document(filename, parsed).method = "raised"
  THEN WriteFile(files, TmpPath(files, LowerText(SplitExt(filename))), parsed)
  ELSE Unlink(WriteFile(files, TmpPath(files, LowerText(SplitExt(filename))), parsed),
              TmpPath(files, LowerText(SplitExt(filename))))

(***************************************************************************)
(* The inputs.  A request is scored by one policy; its input grows one     *)
(* item at a time and is scored anew after each change, so that the state  *)
(* always holds an input and the score the code returns for it.            *)
(*                                                                         *)
(* The inputs are bounded: the impacts come from the vocabularies below    *)
(* (the four severities, one in another letter case, one that is none of   *)
(* them) or are missing, the finding types likewise, and the sizes are     *)
(* bounded by InputOKA, InputOKB and InputOKC.                             *)
(***************************************************************************)
MaxItemsA     == 4    \* Policy A: items of a mixed input
MaxSizeB      == 3    \* Policy B: items plus nodes of a mixed input
MaxNodes      == 4    \* Policy B: nodes of an item
MaxPasses     == 42   \* passes beside at most one other item
MaxRepeat     == 33   \* Policy B: length of a list of like violations
MaxIssues     == 5    \* Policy C: findings
MaxElements   == 12   \* Policy C: pages, paragraphs or lines
MaxReason     == 102  \* characters of a failure reason

ImpactsA == {"critical", "serious", "moderate", "minor", "Critical", "blocker"}
ImpactsB == {"critical", "serious", "moderate", "minor", "blocker"}
TypesC   == {"critical", "warning", "info"}

\* Policy A reads nothing but the impact of a violation and the length of
\* the other two lists
ViolationMenuA == {[impact |-> i, nodes |-> 1] : i \in ImpactsA} \cup {[nodes |-> 1]}
IncompleteMenuA == {[nodes |-> 1]}

ViolationMenuB ==
  {[impact |-> i, nodes |-> n] : i \in ImpactsB, n \in 0..MaxNodes}
    \cup {[nodes |-> n] : n \in 0..MaxNodes}
IncompleteMenuB == {[nodes |-> n] : n \in 0..MaxNodes}

IssueMenuC == {[type |-> t, count |-> 1] : t \in TypesC} \cup {[count |-> 1]}

InputOKA(vs, inc, p) ==
  \/ Len(vs) + Len(inc) + p <= MaxItemsA
  \/ Len(vs) + Len(inc) <= 1 /\ p <= MaxPasses

\* the violation Policy B charges most
HeaviestB == [impact |-> "critical", nodes |-> MaxNodes]

\* an input whose deductions leave base_score one unit in the last place
\* below 64, where adding the pass bonus rounds up to the next integer
RoundingListB ==
  [i \in 1..22 |-> IF i <= 10 THEN [impact |-> "serious", nodes |-> 1]
                             ELSE [impact |-> "critical", nodes |-> 0]]

\* the nodes of a list of items
RECURSIVE SumNodes(_)
SumNodes(items) == IF items = <<>> THEN 0 ELSE Head(items).nodes + SumNodes(Tail(items))

InputOKB(vs, inc, p) ==
  \/ Len(vs) + Len(inc) + p + SumNodes(vs) + SumNodes(inc) <= MaxSizeB
  \/ Len(vs) + Len(inc) <= 1 /\ p <= MaxPasses
  \/ /\ Len(vs) <= MaxRepeat
     /\ \A i \in 1..Len(vs) : vs[i] = HeaviestB
     /\ inc = <<>>
     /\ p <= 1
  \/ /\ Len(vs) <= Len(RoundingListB)
     /\ vs = SubSeq(RoundingListB, 1, Len(vs))
     /\ inc = <<>>
     /\ (p <= 1 \/ (vs = RoundingListB /\ p <= MaxPasses))

InputOKC(is, n) == Len(is) <= MaxIssues /\ n <= MaxElements

\* failure reasons: texts of "x" with at most one "y" in them
ReasonChars == {"x", "y"}
ReasonOK(r) ==
  /\ Len(r) <= MaxReason
  /\ Cardinality({i \in 1..Len(r) : r[i] = "y"}) <= 1

Url == "https://example.edu"
Filename == "syllabus"

\* no call has returned yet
NoResult == [method |-> "none"]

\* Documents.  An uploaded file has a name and the parser of its kind either
\* raises or reads these facts off it.
MaxPages == 12
MaxLines == 12
MaxLongLines == 2

Stems == {<<>>, <<"n", "o", "t", "e", "s">>}
Extensions == {<<>>, <<".", "p", "d", "f">>, <<".", "P", "D", "F">>, <<".", "d", "o", "c">>, <<".", "d", "o", "c", "x">>,
               <<".", "D", "o", "c", "X">>, <<".", "t", "x", "t">>, <<".", "x", "y", "z">>}
Filenames == {stem \o ext : stem \in Stems, ext \in Extensions}

\* str(e) of the exception a parser raises
ParserMessages == {<<"E", "O", "F", " ", "m", "a", "r", "k", "e", "r", " ", "n", "o", "t", " ", "f", "o", "u", "n", "d">>,
                   [i \in 1..MaxReason |-> "x"]}
ParserRaises == {[raises |-> TRUE, message |-> m] : m \in ParserMessages}

\* a text is found on one of the first pages only if there is a page
PdfRead ==
  {[raises |-> FALSE, title |-> t, outline |-> o, pages |-> n, has_text |-> x] :
     t \in BOOLEAN, o \in BOOLEAN, n \in 0..MaxPages, x \in BOOLEAN} \
  {[raises |-> FALSE, title |-> t, outline |-> o, pages |-> 0, has_text |-> TRUE] :
     t \in BOOLEAN, o \in BOOLEAN}

\* len(content) around the threshold of the spacing check; a file of n
\* lines has n - 1 newlines, a long line more than 100 characters, and
\* three newlines in a row make four lines
TextSizes == {0, 1000, 1001}
TextRead ==
  {t \in [raises : {FALSE}, chars : TextSizes, blank_runs : BOOLEAN,
          lines : 1..MaxLines, long_lines : 0..MaxLongLines] :
     /\ t.long_lines <= t.lines
     /\ t.chars >= 101 * t.long_lines + (t.lines - 1)
     /\ t.blank_runs => t.lines >= 4}

NotParsed == [raises |-> FALSE]
Parses(filename) ==
  IF LowerText(SplitExt(filename)) = <<".", "p", "d", "f">> THEN PdfRead \cup ParserRaises
  ELSE IF LowerText(SplitExt(filename)) = <<".", "t", "x", "t">> THEN TextRead \cup ParserRaises
  ELSE {NotParsed}

\* the temporary files the model lets the handler leave behind
MaxTempFiles == 2

NoDocument == [filename |-> <<>>, parsed |-> NotParsed]

\* Web pages.  A scan by the browser raises at one of its steps or delivers
\* axe data; a fetch raises, or answers with a status and a page.
MaxAxeItems == 3
MaxImages == 2

Urls == {<<"e", "x", "a", "m", "p", "l", "e", ".", "e", "d", "u">>,
         <<"h", "t", "t", "p", ":", "/", "/", "e", "x", "a", "m", "p", "l", "e", ".", "e", "d", "u">>,
         <<"h", "t", "t", "p", "s", ":", "/", "/", "e", "x", "a", "m", "p", "l", "e", ".", "e", "d", "u">>}

AxeViolationMenu ==
  { [id |-> <<"i", "m", "a", "g", "e", "-", "a", "l", "t">>,
     impact |-> "critical", nodes |-> 3,
     tags |-> <<"cat.images", "wcag2a">>,
     description |-> <<"I", "m", "a", "g", "e", "s", " ", "m", "u", "s", "t",
                       " ", "h", "a", "v", "e", " ", "a", "l", "t", "e", "r",
                       "n", "a", "t", "e", " ", "t", "e", "x", "t">>],
    [id |-> <<"c", "o", "l", "o", "r", "-", "c", "o", "n", "t", "r", "a", "s", "t">>,
     impact |-> "serious", nodes |-> 1,
     tags |-> <<"wcag2aa", "cat.color">>,
     description |-> <<"E", "l", "e", "m", "e", "n", "t", "s", " ", "m", "u",
                       "s", "t", " ", "m", "e", "e", "t", " ", "c", "o", "n",
                       "t", "r", "a", "s", "t", " ", "t", "h", "r", "e", "s",
                       "h", "o", "l", "d", "s">>],
    [id |-> <<"a", "r", "i", "a", "-", "h", "i", "d", "d", "e", "n", "-", "f", "o", "c", "u", "s">>, impact |-> "minor", nodes |-> 0],
    [nodes |-> 1] }
AxeIncompleteMenu ==
  { [id |-> <<"l", "a", "b", "e", "l">>,
     impact |-> "serious", nodes |-> 2,
     tags |-> <<"cat.forms", "wcag2a">>,
     description |-> <<"F", "o", "r", "m", " ", "e", "l", "e", "m", "e", "n",
                       "t", "s", " ", "m", "u", "s", "t", " ", "h", "a", "v",
                       "e", " ", "l", "a", "b", "e", "l", "s">>] }
AxePasses == {0, 1, 40}

SeqsUpTo(menu, n) == UNION {[1..k -> menu] : k \in 0..n}

AxeData ==
  {[violations |-> vs, incomplete |-> inc, passes |-> p] :
     vs \in SeqsUpTo(AxeViolationMenu, MaxAxeItems),
     inc \in SeqsUpTo(AxeIncompleteMenu, 1),
     p \in AxePasses}
  \cup {[passes |-> 1]}

ScanSteps == {"launch", "new_page", "goto", "axe.run", "_process_axe_results"}
Scans == {[raises |-> TRUE, step |-> s] : s \in ScanSteps}
           \cup {[raises |-> FALSE, axe_data |-> d] : d \in AxeData}
NotScanned == [raises |-> FALSE, step |-> "none"]

FetchMessages == {<<"T", "i", "m", "e", "o", "u", "t">>,
                  [i \in 1..MaxReason |-> "x"]}
Fetches ==
  {[raises |-> TRUE, message |-> msg] : msg \in FetchMessages}
    \cup {[raises |-> FALSE, status |-> s] : s \in {403, 404, 500}}
    \cup {[raises |-> FALSE, status |-> 200, images_no_alt |-> n, lang |-> l] :
            n \in 0..MaxImages, l \in BOOLEAN}
NotFetched == [raises |-> FALSE, status |-> 0]

\* the scan runs if Playwright was imported, the fetch if the scan did not
\* return
ScansOf(available) == IF available THEN Scans ELSE {NotScanned}
FetchesOf(available, scan) ==
  IF available /\ ~scan.raises THEN {NotFetched} ELSE Fetches

NoRequest == [url |-> <<>>, available |-> FALSE, scan |-> NotScanned, http |-> NotFetched]

\* Results handed to the tracker.  A score is any integer around the range
\* of the policies; a finding has a type or none and a list of tags or none.
MaxScore == 110
MaxFindings == 2

Scores == (100 - MaxScore)..MaxScore
EmptyDict == <<>>

TagLists == {<<>>, <<"wcag2aa">>, <<"wcag2a">>, <<"wcag2a", "wcag2aa">>}
FindingMenu ==
  {[type |-> t, tags |-> g] : t \in {"critical", "warning"}, g \in TagLists}
    \cup {[type |-> t] : t \in {"critical", "warning"}}
    \cup {[tags |-> g] : g \in TagLists}

\* Reports.  The clock starts a second before midnight of the last day of
\* a year, or at noon of the day before a leap day, and ticks in seconds
\* while a report is made.
MaxTicks == 2
MaxReportFindings == 2

StartInstants == {Instant(2024, 12, 31, 23, 59, 59), Instant(2024, 2, 28, 12, 0, 0)}

ReportFindingMenu ==
  { [type |-> "critical", title |-> "Missing Image Alt Text", count |-> 2,
     description |-> <<"I", "m", "a", "g", "e", "s", " ", "w", "i", "t", "h",
                       "o", "u", "t", " ", "a", "l", "t", " ", "t", "e", "x",
                       "t">>,
     fix |-> "Add alt='description' to images", category |-> "Images"],
    [type |-> "warning", title |-> "Long Lines", count |-> 1,
     description |-> [i \in 1..MaxReason |-> "x"],
     fix |-> "Break long lines for better readability", category |-> "Readability"],
    [type |-> "info", title |-> "Heading Order"],
    [title |-> "Untyped Finding"] }

ReportResults ==
  {[score |-> 85, issues |-> list] :
     list \in SeqsUpTo(ReportFindingMenu, MaxReportFindings)}
    \cup {[issues |-> <<>>], [score |-> 100]}

\* axe data of a scan whose result is reported: short lists, and a list of
\* more violations than the result keeps
MaxKept == 21
ScanReportData ==
  {[violations |-> vs, incomplete |-> inc, passes |-> 1] :
     vs \in SeqsUpTo(AxeViolationMenu, 1), inc \in SeqsUpTo(AxeIncompleteMenu, 1)}
  \cup {[violations |-> [i \in 1..MaxKept |-> [impact |-> "minor", nodes |-> 1]],
         incomplete |-> <<>>, passes |-> 1]}
ScannedUrl == <<"h", "t", "t", "p", "s", ":", "/", "/", "e", "x", "a", "m",
              "p", "l", "e", ".", "e", "d", "u">>
ScanOf(axe_data) ==
  [url |-> ScannedUrl, available |-> TRUE,
   scan |-> [raises |-> FALSE, axe_data |-> axe_data], http |-> NotFetched]

\* Reports made one after the other: few calls, of results of a finding at
\* most
MaxReports == 2
RepeatResults == {res \in ReportResults : Len(DictGet(res, "issues", <<>>)) <= 1}

Department == "Physics"
NoReport == [timestamp |-> <<>>]
NoFiles == [n \in {} |-> NoReport]

\* Arguments of the classifier.  A list of tags is built of the tags of
\* axe; a rule id is spelled character by character along the ids of the
\* table, one character off them at most.
MaxTags == 3
MaxRuleId == 18

CategoryTags == {"cat.color", "cat.forms", "cat.images", "cat.language",
                 "cat.structure", "cat.tables", "wcag2aa"}

KnownRuleIds ==
  {<<"d", "o", "c", "u", "m", "e", "n", "t", "-", "t", "i", "t", "l", "e">>,
   <<"i", "m", "a", "g", "e", "-", "a", "l", "t">>,
   <<"h", "t", "m", "l", "-", "h", "a", "s", "-", "l", "a", "n", "g">>,
   <<"c", "o", "l", "o", "r", "-", "c", "o", "n", "t", "r", "a", "s", "t">>,
   <<"l", "i", "n", "k", "-", "n", "a", "m", "e">>,
   <<"b", "u", "t", "t", "o", "n", "-", "n", "a", "m", "e">>,
   <<"l", "a", "b", "e", "l">>,
   <<"a", "r", "i", "a", "-", "h", "i", "d", "d", "e", "n", "-", "f", "o", "c", "u", "s">>}
RuleIdChars == UNION {{id[i] : i \in 1..Len(id)} : id \in KnownRuleIds} \cup {"x"}
IsPrefix(s, t) == Len(s) <= Len(t) /\ SubSeq(t, 1, Len(s)) = s
AlongKnownId(s) == \E id \in KnownRuleIds : IsPrefix(s, id)

VARIABLES
  policy,         \* the operation of this request: "A", "B" or "C" for a
                  \* score by that policy, else the function it calls
  violations,     \* axe_results["violations"]: dicts with impact and nodes
  incomplete,     \* axe_results["incomplete"]: dicts with nodes
  passes,         \* len(axe_results["passes"])
  issues,         \* the findings of a document
  element_count,  \* its pages, paragraphs or lines
  score,          \* the score the policy returns for this input
  reason,         \* the failure reason handed to _error_result
  result,         \* the record the function returned
  document,       \* the file handed to analyze_document
  request,        \* the page handed to check_url
  argument,       \* the tags handed to _get_category, the id handed to
                  \* _get_fix_suggestion
  step,           \* the place of _check_with_playwright in its code
  browser,        \* the browser it launched
  results,        \* the result handed to the compliance tracker
  now,            \* the wall clock
  ticks,          \* the seconds it has advanced
  pc,             \* the place of generate_report in its code
  timestamp,      \* its local timestamp
  report,         \* its local report
  files,          \* the files of the output directory, or the temporary
                  \* files of the upload handler, by name
  calls           \* the calls of generate_report so far

scoreVars == <<violations, incomplete, passes, issues, element_count, score>>
errorVars == <<reason>>
docVars == <<document>>
webVars == <<request, argument, step, browser>>
trackerVars == <<results>>
clockVars == <<now, ticks>>
reportVars == <<pc, timestamp, report, files, calls>>
callVars == <<result, errorVars, docVars, webVars, trackerVars, clockVars, reportVars>>
vars == <<policy, scoreVars, callVars>>

Operations == {"A", "B", "C", "web_error_result", "document_error_result",
               "analyze_document", "check_url",
               "get_compliance_status", "determine_wcag_level", "generate_report",
               "get_category", "get_fix_suggestion", "generate_reports",
               "analyze_pdf", "check_with_playwright"}
\* the operations that make reports: one call, or several calls in a row on
\* the same output directory
ReportModes == {"generate_report", "generate_reports"}

Init ==
  /\ policy \in Operations
  /\ violations = <<>>
  /\ incomplete = <<>>
  /\ passes = 0
  /\ issues = <<>>
  /\ element_count = 0
  /\ score = IF policy = "A" THEN AccessibilityChecker_calculate_score(<<>>, <<>>, 0)
             ELSE IF policy = "B" THEN AccessibilityScorer_calculate_score(<<>>, <<>>, 0)
             ELSE PDFAccessibilityChecker_calculate_score(<<>>, 0)
  /\ reason = <<>>
  /\ result = IF policy = "web_error_result"
              THEN AccessibilityChecker_error_result(Url, <<>>)
              ELSE IF policy = "document_error_result"
              THEN PDFAccessibilityChecker_error_result(Filename, <<>>)
              ELSE IF policy = "get_compliance_status"
              THEN UniversityComplianceTracker_get_compliance_status(0)
              ELSE IF policy = "determine_wcag_level"
              THEN UniversityComplianceTracker_determine_wcag_level(<<>>)
              ELSE IF policy = "get_category"
              THEN AccessibilityChecker_get_category(<<>>)
              ELSE IF policy = "get_fix_suggestion"
              THEN AccessibilityChecker_get_fix_suggestion(<<>>)
              ELSE NoResult
  /\ document = NoDocument
  /\ request = NoRequest
  /\ argument = <<>>
  /\ step = "idle"
  /\ browser = "none"
  /\ results = IF policy = "get_compliance_status" THEN [score |-> 0]
               ELSE IF policy = "determine_wcag_level" THEN [issues |-> <<>>]
               ELSE EmptyDict
  /\ now \in IF policy \in ReportModes THEN StartInstants ELSE {0}
  /\ ticks = 0
  /\ pc = "idle"
  /\ timestamp = <<>>
  /\ report = NoReport
  /\ files = NoFiles
  /\ calls = 0

\* Policy A: _process_axe_results scores the lists it was given
AddViolationA ==
  \E v \in ViolationMenuA :
    /\ policy = "A"
    /\ InputOKA(Append(violations, v), incomplete, passes)
    /\ violations' = Append(violations, v)
    /\ score' = AccessibilityChecker_calculate_score(violations', incomplete, passes)
    /\ UNCHANGED <<policy, incomplete, passes, issues, element_count, callVars>>

AddIncompleteA ==
  \E x \in IncompleteMenuA :
    /\ policy = "A"
    /\ InputOKA(violations, Append(incomplete, x), passes)
    /\ incomplete' = Append(incomplete, x)
    /\ score' = AccessibilityChecker_calculate_score(violations, incomplete', passes)
    /\ UNCHANGED <<policy, violations, passes, issues, element_count, callVars>>

AddPassA ==
  /\ policy = "A"
  /\ InputOKA(violations, incomplete, passes + 1)
  /\ passes' = passes + 1
  /\ score' = AccessibilityChecker_calculate_score(violations, incomplete, passes')
  /\ UNCHANGED <<policy, violations, incomplete, issues, element_count, callVars>>

\* Policy B: calculate_score on the axe results it was given
AddViolationB ==
  \E v \in ViolationMenuB :
    /\ policy = "B"
    /\ InputOKB(Append(violations, v), incomplete, passes)
    /\ violations' = Append(violations, v)
    /\ score' = AccessibilityScorer_calculate_score(violations', incomplete, passes)
    /\ UNCHANGED <<policy, incomplete, passes, issues, element_count, callVars>>

\* one more node on violation i
AddNodeB ==
  \E i \in 1..Len(violations) :
    /\ policy = "B"
    /\ violations[i].nodes < MaxNodes
    /\ InputOKB([violations EXCEPT ![i].nodes = @ + 1], incomplete, passes)
    /\ violations' = [violations EXCEPT ![i].nodes = @ + 1]
    /\ score' = AccessibilityScorer_calculate_score(violations', incomplete, passes)
    /\ UNCHANGED <<policy, incomplete, passes, issues, element_count, callVars>>

AddIncompleteB ==
  \E x \in IncompleteMenuB :
    /\ policy = "B"
    /\ InputOKB(violations, Append(incomplete, x), passes)
    /\ incomplete' = Append(incomplete, x)
    /\ score' = AccessibilityScorer_calculate_score(violations, incomplete', passes)
    /\ UNCHANGED <<policy, violations, passes, issues, element_count, callVars>>

AddPassB ==
  /\ policy = "B"
  /\ InputOKB(violations, incomplete, passes + 1)
  /\ passes' = passes + 1
  /\ score' = AccessibilityScorer_calculate_score(violations, incomplete, passes')
  /\ UNCHANGED <<policy, violations, incomplete, issues, element_count, callVars>>

\* Policy C: the analysis of a document scores its findings
AddIssueC ==
  \E x \in IssueMenuC :
    /\ policy = "C"
    /\ InputOKC(Append(issues, x), element_count)
    /\ issues' = Append(issues, x)
    /\ score' = PDFAccessibilityChecker_calculate_score(issues', element_count)
    /\ UNCHANGED <<policy, violations, incomplete, passes, element_count, callVars>>

AddElementC ==
  /\ policy = "C"
  /\ InputOKC(issues, element_count + 1)
  /\ element_count' = element_count + 1
  /\ score' = PDFAccessibilityChecker_calculate_score(issues, element_count')
  /\ UNCHANGED <<policy, violations, incomplete, passes, issues, callVars>>

\* _error_result on a failure reason, web and document variants
ErrorResultWeb ==
  \E c \in ReasonChars :
    /\ policy = "web_error_result"
    /\ ReasonOK(Append(reason, c))
    /\ reason' = Append(reason, c)
    /\ result' = AccessibilityChecker_error_result(Url, reason')
    /\ UNCHANGED <<policy, scoreVars, docVars, webVars, trackerVars, clockVars, reportVars>>

ErrorResultDocument ==
  \E c \in ReasonChars :
    /\ policy = "document_error_result"
    /\ ReasonOK(Append(reason, c))
    /\ reason' = Append(reason, c)
    /\ result' = PDFAccessibilityChecker_error_result(Filename, reason')
    /\ UNCHANGED <<policy, scoreVars, docVars, webVars, trackerVars, clockVars, reportVars>>

\* analyze_document on an uploaded file
AnalyzeDocument ==
  \E filename \in Filenames :
    \E parsed \in Parses(filename) :
      /\ policy = "analyze_document"
      /\ document' = [filename |-> filename, parsed |-> parsed]
      /\ result' = PDFAccessibilityChecker_analyze_document(filename, parsed)
      /\ UNCHANGED <<policy, scoreVars, errorVars, webVars, trackerVars, clockVars, reportVars>>

\* an upload to POST /analyze/pdf is saved, analysed and answered
AnalyzePdf ==
  \E filename \in Filenames :
    \E parsed \in Parses(filename) :
      /\ policy = "analyze_pdf"
      /\ Cardinality(DOMAIN files) < MaxTempFiles
      /\ document' = [filename |-> filename, parsed |-> parsed]
      /\ result' = analyze_pdf(filename, parsed)
      /\ files' = TempFilesAfter(files, filename, parsed)
      /\ UNCHANGED <<policy, scoreVars, errorVars, webVars, trackerVars, clockVars,
                     pc, timestamp, report, calls>>

\* check_url on a page
CheckUrl ==
  \E url \in Urls, available \in BOOLEAN :
    \E scan \in ScansOf(available) :
      \E http \in FetchesOf(available, scan) :
        /\ policy = "check_url"
        /\ request = NoRequest
        /\ request' = [url |-> url, available |-> available, scan |-> scan, http |-> http]
        /\ result' = AccessibilityChecker_check_url(url, available, scan, http)
        /\ UNCHANGED <<policy, scoreVars, errorVars, docVars, argument, step, browser, trackerVars,
                       clockVars, reportVars>>

\* _check_with_playwright, step by step.  The scan of the request says at
\* which step the browser fails, if at any.  A step outside the try leaves
\* the function through the exit of async_playwright alone; a step inside
\* it passes through the finally clause first.
FailsAt(s) == request.scan.raises /\ request.scan.step = s
PlaywrightRest ==
  <<policy, scoreVars, errorVars, docVars, request, argument, trackerVars, clockVars,
    reportVars>>

\* the function is called on a normalized url
CallPlaywright ==
  \E url \in Urls, scan \in Scans :
    /\ policy = "check_with_playwright"
    /\ step = "idle"
    /\ request' = [url |-> NormalizeUrl(url), available |-> TRUE, scan |-> scan,
                   http |-> NotFetched]
    /\ step' = "launch"
    /\ UNCHANGED <<policy, scoreVars, result, errorVars, docVars, argument, browser,
                   trackerVars, clockVars, reportVars>>

\* browser = await p.chromium.launch(headless=True)
Launch ==
  /\ policy = "check_with_playwright"
  /\ step = "launch"
  /\ IF FailsAt("launch")
     THEN /\ result' = Raised("Error")
          /\ step' = "exit"
          /\ UNCHANGED browser
     ELSE /\ browser' = "launched"
          /\ step' = "new_page"
          /\ UNCHANGED result
  /\ UNCHANGED PlaywrightRest

\* page = await browser.new_page(), before the try
NewPage ==
  /\ policy = "check_with_playwright"
  /\ step = "new_page"
  /\ IF FailsAt("new_page")
     THEN result' = Raised("Error") /\ step' = "exit"
     ELSE step' = "goto" /\ UNCHANGED result
  /\ UNCHANGED <<browser, PlaywrightRest>>

\* await page.goto(...) and the wait of two seconds, inside the try
Goto ==
  /\ policy = "check_with_playwright"
  /\ step = "goto"
  /\ IF FailsAt("goto")
     THEN result' = Raised("Error") /\ step' = "finally"
     ELSE step' = "axe.run" /\ UNCHANGED result
  /\ UNCHANGED <<browser, PlaywrightRest>>

\* results = await axe.run(page)
AxeRun ==
  /\ policy = "check_with_playwright"
  /\ step = "axe.run"
  /\ IF FailsAt("axe.run")
     THEN result' = Raised("Error") /\ step' = "finally"
     ELSE step' = "_process_axe_results" /\ UNCHANGED result
  /\ UNCHANGED <<browser, PlaywrightRest>>

\* return self._process_axe_results(url, results): the value is computed,
\* and the finally clause runs before the function returns it
ProcessAxeResults ==
  /\ policy = "check_with_playwright"
  /\ step = "_process_axe_results"
  /\ result' = IF FailsAt("_process_axe_results") THEN Raised("Error")
               ELSE AccessibilityChecker_process_axe_results(request.url,
                                                             request.scan.axe_data)
  /\ step' = "finally"
  /\ UNCHANGED <<browser, PlaywrightRest>>

\* finally: await browser.close()
CloseBrowser ==
  /\ policy = "check_with_playwright"
  /\ step = "finally"
  /\ browser' = "closed"
  /\ step' = "exit"
  /\ UNCHANGED <<result, PlaywrightRest>>

\* the exit of async with async_playwright(): the driver stops, and with it
\* a browser that is still running; the function returns or raises
ExitPlaywright ==
  /\ policy = "check_with_playwright"
  /\ step = "exit"
  /\ browser' = IF browser = "launched" THEN "stopped with the driver" ELSE browser
  /\ step' = "left"
  /\ UNCHANGED <<result, PlaywrightRest>>

\* _get_category on the list with one more tag
AddTag ==
  \E tag \in CategoryTags :
    /\ policy = "get_category"
    /\ Len(argument) < MaxTags
    /\ argument' = Append(argument, tag)
    /\ result' = AccessibilityChecker_get_category(argument')
    /\ UNCHANGED <<policy, scoreVars, errorVars, docVars, request, step, browser, trackerVars,
                   clockVars, reportVars>>

\* _get_fix_suggestion on the id with one more character
AddIdChar ==
  \E c \in RuleIdChars :
    /\ policy = "get_fix_suggestion"
    /\ Len(argument) < MaxRuleId
    /\ AlongKnownId(argument)
    /\ argument' = Append(argument, c)
    /\ result' = AccessibilityChecker_get_fix_suggestion(argument')
    /\ UNCHANGED <<policy, scoreVars, errorVars, docVars, request, step, browser, trackerVars,
                   clockVars, reportVars>>

\* _get_compliance_status on the score one above, one below
RaiseScore ==
  /\ policy = "get_compliance_status"
  /\ results.score + 1 \in Scores
  /\ results' = [score |-> results.score + 1]
  /\ result' = UniversityComplianceTracker_get_compliance_status(results'.score)
  /\ UNCHANGED <<policy, scoreVars, errorVars, docVars, webVars, clockVars, reportVars>>

LowerScore ==
  /\ policy = "get_compliance_status"
  /\ results.score - 1 \in Scores
  /\ results' = [score |-> results.score - 1]
  /\ result' = UniversityComplianceTracker_get_compliance_status(results'.score)
  /\ UNCHANGED <<policy, scoreVars, errorVars, docVars, webVars, clockVars, reportVars>>

\* _determine_wcag_level on the list with one more finding
AddFinding ==
  \E issue \in FindingMenu :
    /\ policy = "determine_wcag_level"
    /\ Len(results.issues) < MaxFindings
    /\ results' = [issues |-> Append(results.issues, issue)]
    /\ result' = UniversityComplianceTracker_determine_wcag_level(results'.issues)
    /\ UNCHANGED <<policy, scoreVars, errorVars, docVars, webVars, clockVars, reportVars>>

NextA == AddViolationA \/ AddIncompleteA \/ AddPassA
NextB == AddViolationB \/ AddIncompleteB \/ AddPassB \/ AddNodeB
NextC == AddIssueC \/ AddElementC
\* generate_report is called and reads the clock for its timestamp (line 17)
GenerateReport ==
  \E res \in ReportResults :
    /\ policy = "generate_report"
    /\ pc = "idle"
    /\ results' = res
    /\ timestamp' = FormatTimestamp(now)
    /\ pc' = "report"
    /\ calls' = calls + 1
    /\ UNCHANGED <<policy, scoreVars, result, errorVars, docVars, webVars, clockVars,
                   report, files>>

\* generate_report is called on the result of a scan by the browser
GenerateReportOfScan ==
  \E axe_data \in ScanReportData :
    /\ policy = "generate_report"
    /\ pc = "idle"
    /\ request' = ScanOf(axe_data)
    /\ results' = AccessibilityChecker_process_axe_results(ScannedUrl, axe_data)
    /\ timestamp' = FormatTimestamp(now)
    /\ pc' = "report"
    /\ calls' = calls + 1
    /\ UNCHANGED <<policy, scoreVars, result, errorVars, docVars, argument, step, browser, clockVars,
                   report, files>>

\* generate_report is called once more on the same output directory, after
\* the call before it has returned
GenerateReportAgain ==
  \E res \in RepeatResults :
    /\ policy = "generate_reports"
    /\ pc \in {"idle", "returned"}
    /\ calls < MaxReports
    /\ results' = res
    /\ timestamp' = FormatTimestamp(now)
    /\ pc' = "report"
    /\ calls' = calls + 1
    /\ UNCHANGED <<policy, scoreVars, result, errorVars, docVars, webVars, clockVars,
                   report, files>>

\* it builds the report, reading the clock in _get_next_audit_date, and
\* dumps it to the json file (lines 18 to 42)
BuildReport ==
  /\ policy \in ReportModes
  /\ pc = "report"
  /\ report' = Report(Url, results, Department, timestamp, now)
  /\ files' = WriteFile(files, JsonFile(timestamp), report')
  /\ pc' = "csv"
  /\ UNCHANGED <<policy, scoreVars, result, errorVars, docVars, webVars, trackerVars,
                 clockVars, timestamp, calls>>

\* _generate_csv_report opens the csv file and writes the rows above the
\* findings, reading the clock for the row "Generated:" (lines 81 to 105)
WriteCsvSummary ==
  /\ policy \in ReportModes
  /\ pc = "csv"
  /\ files' = WriteFile(files, CsvFile(timestamp), CsvSummary(report, now))
  /\ pc' = "rows"
  /\ UNCHANGED <<policy, scoreVars, result, errorVars, docVars, webVars, trackerVars,
                 clockVars, timestamp, report, calls>>

\* one turn of the loop over the findings, reading the clock for the due
\* date of a finding that is not critical (lines 107 to 124)
WriteCsvRow ==
  /\ policy \in ReportModes
  /\ pc = "rows"
  /\ Len(files[CsvFile(timestamp)].rows) < Len(report.detailed_issues)
  /\ files' = WriteFile(files, CsvFile(timestamp),
                 AppendRow(files[CsvFile(timestamp)],
                   CsvRow(report.detailed_issues[Len(files[CsvFile(timestamp)].rows) + 1],
                          now)))
  /\ UNCHANGED <<policy, scoreVars, result, errorVars, docVars, webVars, trackerVars,
                 clockVars, pc, timestamp, report, calls>>

\* the loop is over and generate_report returns the name of the json file
ReturnReport ==
  /\ policy \in ReportModes
  /\ pc = "rows"
  /\ Len(files[CsvFile(timestamp)].rows) = Len(report.detailed_issues)
  /\ result' = JsonFile(timestamp)
  /\ pc' = "returned"
  /\ UNCHANGED <<policy, scoreVars, errorVars, docVars, webVars, trackerVars,
                 clockVars, timestamp, report, files, calls>>

\* a second passes while the report is made, or between two calls
Tick ==
  /\ policy \in ReportModes
  /\ \/ pc \in {"report", "csv", "rows"}
     \/ policy = "generate_reports" /\ pc = "returned"
  /\ ticks < MaxTicks
  /\ now' = now + 1
  /\ ticks' = ticks + 1
  /\ UNCHANGED <<policy, scoreVars, result, errorVars, docVars, webVars, trackerVars,
                 reportVars>>

NextE == ErrorResultWeb \/ ErrorResultDocument
NextD == AnalyzeDocument
NextW == CheckUrl
NextS == RaiseScore \/ LowerScore
NextL == AddFinding
NextG == AddTag
NextF == AddIdChar
NextR ==
  \/ GenerateReport
  \/ GenerateReportOfScan
  \/ BuildReport
  \/ WriteCsvSummary
  \/ WriteCsvRow
  \/ ReturnReport
  \/ Tick
NextU == AnalyzePdf
NextP ==
  \/ CallPlaywright
  \/ Launch
  \/ NewPage
  \/ Goto
  \/ AxeRun
  \/ ProcessAxeResults
  \/ CloseBrowser
  \/ ExitPlaywright
NextN ==
  \/ GenerateReportAgain
  \/ BuildReport
  \/ WriteCsvSummary
  \/ WriteCsvRow
  \/ ReturnReport
  \/ Tick
Next ==
  \/ NextA \/ NextB \/ NextC \/ NextE \/ NextD \/ NextW \/ NextS \/ NextL \/ NextR
  \/ NextG \/ NextF \/ NextN \/ NextU \/ NextP

Spec == Init /\ [][Next]_vars
InitA == Init /\ policy = "A"
InitB == Init /\ policy = "B"
InitC == Init /\ policy = "C"
SpecA == InitA /\ [][NextA]_vars
SpecB == InitB /\ [][NextB]_vars
SpecC == InitC /\ [][NextC]_vars
InitE == Init /\ policy \in {"web_error_result", "document_error_result"}
SpecE == InitE /\ [][NextE]_vars
InitD == Init /\ policy = "analyze_document"
SpecD == InitD /\ [][NextD]_vars
InitW == Init /\ policy = "check_url"
SpecW == InitW /\ [][NextW]_vars
InitS == Init /\ policy = "get_compliance_status"
SpecS == InitS /\ [][NextS]_vars
InitL == Init /\ policy = "determine_wcag_level"
SpecL == InitL /\ [][NextL]_vars
InitR == Init /\ policy = "generate_report"
SpecR == InitR /\ [][NextR]_vars
InitG == Init /\ policy = "get_category"
SpecG == InitG /\ [][NextG]_vars
InitF == Init /\ policy = "get_fix_suggestion"
SpecF == InitF /\ [][NextF]_vars
InitN == Init /\ policy = "generate_reports"
SpecN == InitN /\ [][NextN]_vars
InitU == Init /\ policy = "analyze_pdf"
SpecU == InitU /\ [][NextU]_vars
InitP == Init /\ policy = "check_with_playwright"
SpecP == InitP /\ [][NextP]_vars

(***************************************************************************)
(* The properties.                                                         *)
(***************************************************************************)
TotalChecks == Len(violations) + Len(incomplete) + passes

Front(seq) == SubSeq(seq, 1, Len(seq) - 1)

Severities == {"critical", "serious", "moderate", "minor"}

HasImpact(v, imp) == "impact" \in DOMAIN v /\ v.impact = imp

CountImpact(imp) == Cardinality({i \in 1..Len(violations) : HasImpact(violations[i], imp)})

\* a step that appends one violation and changes nothing else
AppendsViolation ==
  /\ Len(violations') = Len(violations) + 1
  /\ Front(violations') = violations
  /\ incomplete' = incomplete
  /\ passes' = passes

\* a step that adds one pass and changes nothing else
AddsPass ==
  /\ passes' = passes + 1
  /\ violations' = violations
  /\ incomplete' = incomplete

\* a step that adds one node to one violation and changes nothing else
AddsNode ==
  /\ \E i \in 1..Len(violations) : violations' = [violations EXCEPT ![i].nodes = @ + 1]
  /\ incomplete' = incomplete
  /\ passes' = passes

\* C1: Policy A returns an integer in [60,100] for every input with at least
\* one item (violation, incomplete item or pass).
C1_ScoreRangeA ==
  (policy = "A" /\ TotalChecks >= 1) => score \in 60..100

\* the floor acts: the deductions go below 60 and the score is 60
C1_Witness ==
  /\ policy = "A"
  /\ TotalChecks >= 1
  /\ RawScoreA(violations, incomplete, passes) < 60
  /\ score = 60

\* C2: on an input with at least one item whose violations all carry one of
\* the four severities, Policy A returns
\*   min(100, max(60, 100 - 15 c - 10 s - 7 m - 4 minor - 3 #incomplete + b))
\* with b = 5 exactly when passes / total > 0.95 (as a rational: 100 passes >
\* 95 total) and b = 0 otherwise; the value depends on the counts only, so
\* not on the order of the list; 1 critical, 0 incomplete and 19 passes give
\* 85.
C2_ReferenceFormulaA ==
  /\ ( /\ policy = "A"
       /\ TotalChecks >= 1
       /\ \A i \in 1..Len(violations) : \E imp \in Severities : HasImpact(violations[i], imp) )
     => score = Min(100, Max(60,
                  100 - 15 * CountImpact("critical") - 10 * CountImpact("serious")
                      - 7 * CountImpact("moderate") - 4 * CountImpact("minor")
                      - 3 * Len(incomplete)
                      + (IF 100 * passes > 95 * TotalChecks THEN 5 ELSE 0)))
  /\ ( /\ policy = "A"
       /\ Len(violations) = 1 /\ HasImpact(violations[1], "critical")
       /\ incomplete = <<>>
       /\ passes = 19 )
     => score = 85

\* the pass rate is exactly 0.95 beside one critical violation: no bonus
C2_Witness ==
  /\ policy = "A"
  /\ Len(violations) = 1 /\ HasImpact(violations[1], "critical")
  /\ incomplete = <<>>
  /\ passes = 19
  /\ score = 85

\* a violation as C3 reads it: one without an impact, or with an impact that
\* is none of the four severities in any letter case, taken as moderate
AsModerate(v) ==
  IF "impact" \in DOMAIN v /\ Lower(v.impact) \in Severities
  THEN v ELSE [impact |-> "moderate", nodes |-> v.nodes]

AllAsModerate(vs) == [i \in 1..Len(vs) |-> AsModerate(vs[i])]

\* C3: under Policy A and Policy B a violation whose impact is missing or is
\* none of critical, serious, moderate, minor is scored as a moderate one
\* (7 points under A, weight 0.4 under B): the score of an input equals the
\* score of the same input with those impacts replaced by "moderate".
C3_UnknownImpactIsModerate ==
  /\ policy = "A" =>
       score = AccessibilityChecker_calculate_score(AllAsModerate(violations), incomplete, passes)
  /\ policy = "B" =>
       score = AccessibilityScorer_calculate_score(AllAsModerate(violations), incomplete, passes)

\* C4 as stated: one more critical violation always gives a strictly lower
\* Policy A score.
C4_StrictlyLowerA ==
  [][(policy = "A" /\ AppendsViolation
        /\ HasImpact(violations'[Len(violations')], "critical"))
     => score' < score]_vars

\* C4: under Policy A one more critical violation never gives a higher
\* score, and gives a strictly lower one whenever the score before it is
\* above the floor of 60.
C4_LowerAboveFloorA ==
  [][(policy = "A" /\ AppendsViolation
        /\ HasImpact(violations'[Len(violations')], "critical"))
     => (score' <= score /\ (score > 60 => score' < score))]_vars

\* a critical violation was added last and lowered the score
C4_Witness ==
  /\ policy = "A"
  /\ Len(violations) >= 1
  /\ HasImpact(violations[Len(violations)], "critical")
  /\ score < AccessibilityChecker_calculate_score(Front(violations), incomplete, passes)

\* C5: an input with zero checks scores 100 under every policy: Policy A
\* and Policy B on empty violations, incomplete and passes, Policy C on an
\* empty issue list, whatever the element count.
C5_ZeroChecksScore100 ==
  /\ (policy \in {"A", "B"} /\ TotalChecks = 0) => score = 100
  /\ (policy = "C" /\ issues = <<>>) => score = 100

\* Policy C on no findings and more than 10 elements: 105 before the clamp
C5_Witness ==
  /\ policy = "C"
  /\ issues = <<>>
  /\ element_count > 10
  /\ RawScoreC(issues, element_count) > 100
  /\ score = 100

\* C6: Policy B returns an integer in [0,100] for every input.
C6_ScoreRangeB ==
  policy = "B" => score \in 0..100

\* the floor acts: int(base_score) is negative and the score is 0
C6_Witness ==
  /\ policy = "B"
  /\ FTrunc(BaseScoreB(violations, incomplete, passes)) < 0
  /\ score = 0

\* C7: under Policy B the score after adding a violation (of any impact and
\* node count, to any input, the empty one included) is at most the score
\* before.
C7_ViolationNeverRaisesB ==
  [][(policy = "B" /\ AppendsViolation) => score' <= score]_vars

\* a violation was added last and lowered the score
C7_Witness ==
  /\ policy = "B"
  /\ Len(violations) >= 1
  /\ score < AccessibilityScorer_calculate_score(Front(violations), incomplete, passes)

\* C8: under Policy B one more node on one violation never gives a higher
\* score (so neither does any larger number of nodes), and the deduction of
\* a violation is never more than 10 * weight.
C8_MonotoneInNodesB ==
  /\ [][(policy = "B" /\ AddsNode) => score' <= score]_vars
  /\ [](policy = "B" =>
         \A i \in 1..Len(violations) :
           ~FLt(FMul(FromInt(10), WeightB(violations[i])), DeductionB(violations[i])))

\* some violation has a node whose removal would give a higher score
C8_Witness ==
  /\ policy = "B"
  /\ \E i \in 1..Len(violations) :
       /\ violations[i].nodes >= 1
       /\ score < AccessibilityScorer_calculate_score(
                    [violations EXCEPT ![i].nodes = @ - 1], incomplete, passes)

\* base_score with no passes: the unclamped zero-pass score
ZeroPassBaseB == BaseScoreB(violations, incomplete, 0)

\* C9 as stated, its bound: the Policy B score with any number of passes is
\* at most the unclamped zero-pass score plus 20.
C9_AtMostZeroPassPlus20 ==
  policy = "B" => ~FLt(ZeroPassBaseB, FromInt(score - 20))

\* C9: under Policy B the score is non-decreasing in the number of passes,
\* passes beyond 40 change nothing, and the score with any number of passes
\* is 0 or less than the unclamped zero-pass score plus 21 (that is, at most
\* that score rounded up to an integer, plus 20).
C9_PassesBoundedB ==
  /\ [][(policy = "B" /\ AddsPass) => score' >= score]_vars
  /\ [][(policy = "B" /\ AddsPass /\ passes >= 40) => score' = score]_vars
  /\ [](policy = "B" => (score = 0 \/ FLt(FromInt(score - 21), ZeroPassBaseB)))

\* 40 passes raise the score by 21: the zero-pass base_score is just below
\* an integer and the sum with the bonus rounds up to one
C9_Witness ==
  /\ policy = "B"
  /\ passes = 40
  /\ score = AccessibilityScorer_calculate_score(violations, incomplete, 0) + 21

\* C10: Policy C returns a score in [30,100] for every issue list and every
\* element count.
C10_ScoreRangeC ==
  policy = "C" => score \in 30..100

\* the floor acts: the deductions go below 30 and the score is 30
C10_Witness ==
  /\ policy = "C"
  /\ RawScoreC(issues, element_count) < 30
  /\ score = 30

HasType(x, t) == "type" \in DOMAIN x /\ x.type = t

CountType(t) == Cardinality({i \in 1..Len(issues) : HasType(issues[i], t)})

\* C11: Policy C returns
\*   min(100, max(30, 100 - 15 #critical - 5 #warning + b))
\* with b = 5 when element_count > 10 and b = 0 otherwise, for every input;
\* findings of type info, of any other type or of no type change nothing.
\* One critical finding alone with element_count <= 10 gives 85, one
\* critical and one warning without the bonus give 80.
C11_ReferenceFormulaC ==
  /\ policy = "C" =>
       score = Min(100, Max(30, 100 - 15 * CountType("critical") - 5 * CountType("warning")
                                    + (IF element_count > 10 THEN 5 ELSE 0)))
  /\ ( /\ policy = "C"
       /\ Len(issues) = 1 /\ HasType(issues[1], "critical")
       /\ element_count <= 10 )
     => score = 85
  /\ ( /\ policy = "C"
       /\ CountType("critical") = 1 /\ CountType("warning") = 1
       /\ element_count <= 10 )
     => score = 80

\* one critical, one warning and an info finding in a document of exactly 10
\* elements: no bonus, and the info finding costs nothing
C11_Witness ==
  /\ policy = "C"
  /\ Len(issues) = 3
  /\ CountType("critical") = 1 /\ CountType("warning") = 1 /\ CountType("info") = 1
  /\ element_count = 10
  /\ score = 80

\* C12: for every failure reason the error result of _error_result, web and
\* document variant alike, has score 0 and exactly one issue, of type
\* critical and category Error, whose description is the reason cut to at
\* most 100 characters; its method is error.
C12_ErrorResult ==
  policy \in {"web_error_result", "document_error_result"} =>
    /\ result.score = 0
    /\ Len(result.issues) = 1
    /\ result.issues[1].type = "critical"
    /\ result.issues[1].category = "Error"
    /\ Len(result.issues[1].description) = (IF Len(reason) < 100 THEN Len(reason) ELSE 100)
    /\ \A i \in 1..Len(result.issues[1].description) :
         result.issues[1].description[i] = reason[i]
    /\ result.method = "error"

\* a reason longer than 100 characters whose odd character is cut off
C12_Witness ==
  /\ policy \in {"web_error_result", "document_error_result"}
  /\ Len(reason) > 100
  /\ reason[101] = "y"
  /\ Len(result.issues[1].description) = 100
  /\ result.score = 0
\* the kind of file the name says, and whether its parser failed
FileExt == LowerText(SplitExt(document.filename))
Supported == FileExt \in {<<".", "p", "d", "f">>, <<".", "d", "o", "c">>, <<".", "d", "o", "c", "x">>, <<".", "t", "x", "t">>}
Analyzed == policy = "analyze_document" /\ document # NoDocument

\* C13: analyze_document never lets an exception escape: for every
\* extension and every outcome of the parser it returns a result with a
\* score and a list of findings, and that result is the error result when
\* the extension is unsupported or the parser failed.
C13_NoExceptionEscapes ==
  Analyzed =>
    /\ result.method # "raised"
    /\ result.score \in 0..100
    /\ (~Supported \/ document.parsed.raises) => result.method = "error"

\* the browser scan of the request failed or timed out
Checked == policy = "check_url" /\ request # NoRequest
ScanFailed == Checked /\ request.available /\ request.scan.raises

\* what _error_result makes of a reason, whatever the reason
IsErrorResult(r) ==
  /\ r.method = "error"
  /\ r.score = 0
  /\ Len(r.issues) = 1
  /\ r.issues[1].type = "critical"
  /\ r.issues[1].title = "Analysis Failed"

\* C14 as stated: when the browser scan fails or times out, check_url
\* returns the error result: method error, score 0 and the single critical
\* finding 'Analysis Failed'.
C14_ScanFailureIsError == ScanFailed => IsErrorResult(result)

\* C14: when the browser scan fails or times out, check_url falls back to
\* the simple HTML checker and returns what that checker returns: a result
\* of method simple with score 100, 85 or 70 when the page was fetched with
\* status 200, and the error result when the fetch raised or answered with
\* another status.
C14_ScanFailureFallsBack ==
  ScanFailed =>
    IF ~request.http.raises /\ request.http.status = 200
    THEN result.method = "simple" /\ result.score \in {100, 85, 70}
    ELSE IsErrorResult(result)
C14_Witness ==
  /\ ScanFailed
  /\ request.scan.step = "goto"
  /\ result.method = "simple"
  /\ result.score = 70

\* C15: in every result of check_url the score is below 60 exactly when
\* the method is error, and then it is 0; a result of method axe-core or
\* simple has a score of at least 60.
C15_Below60IsError ==
  Checked =>
    /\ result.score < 60 <=> result.method = "error"
    /\ result.method = "error" => result.score = 0
    /\ result.method \in {"axe-core", "simple"} => result.score >= 60
    /\ result.method \in {"axe-core", "simple", "error"}
C15_Witness ==
  /\ Checked
  /\ result.method = "axe-core"
  /\ result.violation_count = MaxAxeItems
  /\ result.score = 60

\* the tiers of the compliance status, lowest first
Tier(status) ==
  IF status = "COMPLIANT - Excellent" THEN 4
  ELSE IF status = "COMPLIANT - Good" THEN 3
  ELSE IF status = "PARTIALLY COMPLIANT - Needs Improvement" THEN 2
  ELSE IF status = "NON-COMPLIANT - Significant Issues" THEN 1
  ELSE IF status = "NON-COMPLIANT - Critical Remediation Required" THEN 0
  ELSE 0 - 1

\* C16: _get_compliance_status is a total step function of the score with
\* lower-inclusive bands: Excellent from 95, Good for 90..94, Partially
\* Compliant for 80..89, Significant Issues for 70..79, Critical
\* Remediation Required below 70; and it is monotone: no lower score maps
\* to a higher tier.
C16_ComplianceBands ==
  policy = "get_compliance_status" =>
    /\ Tier(result) \in 0..4
    /\ Tier(result) = 4 <=> results.score >= 95
    /\ Tier(result) = 3 <=> results.score \in 90..94
    /\ Tier(result) = 2 <=> results.score \in 80..89
    /\ Tier(result) = 1 <=> results.score \in 70..79
    /\ Tier(result) = 0 <=> results.score < 70
    /\ \A lower \in Scores :
         lower <= results.score =>
           Tier(UniversityComplianceTracker_get_compliance_status(lower)) <= Tier(result)
C16_Witness ==
  /\ policy = "get_compliance_status"
  /\ results.score = 95
  /\ result = "COMPLIANT - Excellent"

\* C17: _determine_wcag_level returns 'WCAG 2.0 A (Minimum)' exactly when
\* some finding of the list both carries the tag wcag2aa and has type
\* critical, and 'WCAG 2.1 AA (Target)' for every other list, the empty one
\* included.
HasCriticalAA(list) ==
  \E i \in 1..Len(list) :
    /\ "tags" \in DOMAIN list[i]
    /\ \E j \in 1..Len(list[i].tags) : list[i].tags[j] = "wcag2aa"
    /\ "type" \in DOMAIN list[i]
    /\ list[i].type = "critical"
C17_WcagLevel ==
  policy = "determine_wcag_level" =>
    /\ result \in {"WCAG 2.0 A (Minimum)", "WCAG 2.1 AA (Target)"}
    /\ result = "WCAG 2.0 A (Minimum)" <=> HasCriticalAA(results.issues)
C17_Witness ==
  /\ policy = "determine_wcag_level"
  /\ Len(results.issues) = 2
  /\ ~HasCriticalAA(<<results.issues[1]>>)
  /\ HasCriticalAA(<<results.issues[2]>>)
  /\ result = "WCAG 2.0 A (Minimum)"

\* the number a text of digits writes
DigitOf(c) == (CHOOSE i \in 1..10 : Digits[i] = c) - 1
RECURSIVE TextInt(_)
TextInt(text) ==
  IF text = <<>> THEN 0
  ELSE 10 * TextInt(SubSeq(text, 1, Len(text) - 1)) + DigitOf(text[Len(text)])

\* the generation time a timestamp YYYYmmdd_HHMMSS records
TimestampInstant(ts) ==
  Instant(TextInt(SubSeq(ts, 1, 4)), TextInt(SubSeq(ts, 5, 6)), TextInt(SubSeq(ts, 7, 8)),
          TextInt(SubSeq(ts, 10, 11)), TextInt(SubSeq(ts, 12, 13)), TextInt(SubSeq(ts, 14, 15)))

\* the report of the call, its json file and its csv file, once written
Reporting == policy = "generate_report" /\ pc \in {"csv", "rows", "returned"}
CsvWritten == policy = "generate_report" /\ pc \in {"rows", "returned"}
Json == files[JsonFile(timestamp)]
Csv == files[CsvFile(timestamp)]
Immediate == <<"I", "M", "M", "E", "D", "I", "A", "T", "E">>

\* the due date of a finding when the report is generated at instant t
DueFrom(issue, t) ==
  IF "type" \in DOMAIN issue /\ issue.type = "critical" THEN Immediate
  ELSE IF "type" \in DOMAIN issue /\ issue.type = "warning" THEN FormatDate(PlusDays(t, 30))
  ELSE FormatDate(PlusDays(t, 60))

\* C18: in the generated report a critical finding is due 'IMMEDIATE', a
\* warning 30 days after the generation date, and every other finding 60
\* days after the generation date.
C18_DueDates ==
  CsvWritten =>
    \A i \in 1..Len(Csv.rows) :
      Csv.rows[i].due_date = DueFrom(report.detailed_issues[i], TimestampInstant(report.timestamp))

\* C19: the json output and the csv output of a report agree on the score,
\* on the compliance status and on the due date of each finding, and the
\* due dates all come from one reading of the clock.
C19_OutputsAgree ==
  (policy = "generate_report" /\ pc = "returned") =>
    /\ Csv.score = IntText(Json.score) \o <<"/", "1", "0", "0">>
    /\ Csv.compliance_status = Json.compliance_status
    /\ Len(Csv.rows) = Len(Json.detailed_issues)
    /\ \A i \in 1..Len(Csv.rows) :
         /\ "due_date" \in DOMAIN Json.detailed_issues[i]
         /\ Json.detailed_issues[i].due_date = Csv.rows[i].due_date
    /\ \E t \in now - ticks .. now :
         \A i \in 1..Len(Csv.rows) :
           Csv.rows[i].due_date = DueDate(Json.detailed_issues[i], t)

\* C20: the next audit date of a report is the date 90 days after the
\* generation time its timestamp records, whatever the clock did between
\* the readings.
C20_NextAuditDate ==
  Reporting =>
    report.next_audit_date = FormatDate(PlusDays(TimestampInstant(report.timestamp), 90))

\* the categories of the tags, first priority first
CategoryOrder ==
  << <<"cat.color", "Color">>, <<"cat.forms", "Forms">>, <<"cat.images", "Images">>,
     <<"cat.language", "Language">>, <<"cat.structure", "Structure">> >>
TagSet(tags) == {tags[i] : i \in 1..Len(tags)}

\* C22: _get_category is a first-match lookup in the order color, forms,
\* images, language, structure: the result is the category of the first
\* tag of that order that is in the list, wherever it stands in the list,
\* and 'General' when none of the five is in it.
C22_CategoryFirstMatch ==
  policy = "get_category" =>
    /\ (\A k \in 1..5 : CategoryOrder[k][1] \notin TagSet(argument)) => result = "General"
    /\ \A k \in 1..5 :
         (/\ CategoryOrder[k][1] \in TagSet(argument)
          /\ \A h \in 1..(k - 1) : CategoryOrder[h][1] \notin TagSet(argument))
           => result = CategoryOrder[k][2]
C22_Witness ==
  /\ policy = "get_category"
  /\ argument = <<"cat.forms", "cat.color">>
  /\ result = "Color"

\* the fixes dict of _get_fix_suggestion
FixTable ==
  {<<<<"d", "o", "c", "u", "m", "e", "n", "t", "-", "t", "i", "t", "l", "e">>,
     "Add a descriptive <title> element in the <head> section.">>,
   <<<<"i", "m", "a", "g", "e", "-", "a", "l", "t">>,
     "Add alt text to images. Use alt='' for decorative images.">>,
   <<<<"h", "t", "m", "l", "-", "h", "a", "s", "-", "l", "a", "n", "g">>,
     "Add lang attribute to <html> tag, e.g., <html lang='en'>.">>,
   <<<<"c", "o", "l", "o", "r", "-", "c", "o", "n", "t", "r", "a", "s", "t">>,
     "Increase color contrast ratio to at least 4.5:1.">>,
   <<<<"l", "i", "n", "k", "-", "n", "a", "m", "e">>,
     "Links should have descriptive text content.">>,
   <<<<"b", "u", "t", "t", "o", "n", "-", "n", "a", "m", "e">>,
     "Buttons should have accessible names.">>,
   <<<<"l", "a", "b", "e", "l">>,
     "Form inputs should have associated <label> elements.">>,
   <<<<"a", "r", "i", "a", "-", "h", "i", "d", "d", "e", "n", "-", "f", "o", "c", "u", "s">>,
     "Don't hide focusable elements from screen readers.">>}
InFixTable(id) == \E p \in FixTable : p[1] = id
FixOf(id) == (CHOOSE p \in FixTable : p[1] = id)[2]

\* C23 as stated: _get_fix_suggestion returns the table entry of a rule id
\* of the table and 'Review accessibility guidelines and fix accordingly'
\* for every other rule id, the empty one included.
C23_FixOrSpecDefault ==
  policy = "get_fix_suggestion" =>
    result = IF InFixTable(argument) THEN FixOf(argument)
             ELSE "Review accessibility guidelines and fix accordingly"

\* C23: _get_fix_suggestion returns the table entry of a rule id of the
\* table and 'Review WCAG guidelines and fix accordingly.' for every other
\* rule id, the empty one included.
C23_FixOrDefault ==
  policy = "get_fix_suggestion" =>
    result = IF InFixTable(argument) THEN FixOf(argument)
             ELSE "Review WCAG guidelines and fix accordingly."
C23_Witness ==
  /\ policy = "get_fix_suggestion"
  /\ argument = <<"l", "a", "b", "e", "l", "x">>
  /\ result = "Review WCAG guidelines and fix accordingly."

\* the calls that analyse a page or a document, once they have returned a
\* record
AnalysisModes == {"check_url", "analyze_document", "web_error_result", "document_error_result"}
HasFindings == policy \in AnalysisModes /\ result.method \notin {"none", "raised"}

ClosedCategories ==
  {"Images", "Forms", "Color", "Language", "Structure", "Tables", "Links", "Metadata",
   "Navigation", "Text", "Error", "General"}

\* C24: every finding of every analysis path (axe-core processing, simple
\* HTML check, PDF, Word, text, error result) has a category of the closed
\* set Images, Forms, Color, Language, Structure, Tables, Links, Metadata,
\* Navigation, Text, Error, General.
C24_CategoriesClosed ==
  HasFindings =>
    \A i \in 1..Len(result.issues) : result.issues[i].category \in ClosedCategories

\* C25: every finding of every analysis path has a count of at least 1,
\* also a finding made of an axe violation or incomplete item whose list of
\* nodes is empty or missing.
C25_CountAtLeastOne ==
  HasFindings =>
    \A i \in 1..Len(result.issues) : result.issues[i].count >= 1

\* C26: check_url always returns a complete record and lets no fault
\* through: whether Playwright is available or not, whether the scan
\* delivers or raises at any step, result processing included, and whether
\* the fetch delivers a page, another status or raises, the record has a
\* method of axe-core, simple or error and a score in [0,100]; and the
\* simple check has run only if Playwright is unavailable or has raised.
C26_AlwaysARecord ==
  Checked =>
    /\ result.method \in {"axe-core", "simple", "error"}
    /\ {"url", "score", "issues", "summary", "method"} \subseteq DOMAIN result
    /\ result.score \in 0..100
    /\ result.method \in {"simple", "error"} <=>
         (~request.available \/ request.scan.raises)
C26_Witness ==
  /\ Checked
  /\ request.available
  /\ request.scan.raises
  /\ request.scan.step = "_process_axe_results"
  /\ request.http.raises
  /\ result.method = "error"

\* the report is made of the result of a scan, and of which axe data
ReportOfScan == Reporting /\ request.available
ScanViolations == request.scan.axe_data.violations
ScanIncomplete == request.scan.axe_data.incomplete
KeptViolations == Min(Len(ScanViolations), 20)

\* C27: the type of a finding of the web scan does not depend on the
\* impact: every violation becomes a critical finding, every incomplete
\* item a warning; so in the report of that result a violation of minor
\* impact counts in critical_issues and is due 'IMMEDIATE', and
\* critical_issues is the number of violations kept in the list of issues.
C27_SeverityIgnoresImpact ==
  ReportOfScan =>
    /\ \A i \in 1..Len(report.detailed_issues) :
         report.detailed_issues[i].type =
           IF i <= Len(ScanViolations) THEN "critical" ELSE "warning"
    /\ \A i \in 1..KeptViolations :
         report.detailed_issues[i].impact = DictGet(ScanViolations[i], "impact", "moderate")
    /\ report.critical_issues = KeptViolations
    /\ CsvWritten =>
         \A i \in 1..Len(Csv.rows) :
           i <= Len(ScanViolations) => Csv.rows[i].due_date = Immediate
C27_Witness ==
  /\ ReportOfScan
  /\ pc = "returned"
  /\ Len(ScanViolations) = 1
  /\ DictGet(ScanViolations[1], "impact", "moderate") = "minor"
  /\ report.critical_issues = 1
  /\ Csv.rows[1].due_date = Immediate

\* C28: the WCAG level of the report of a scan reflects the scan: it is
\* 'WCAG 2.0 A (Minimum)' whenever some violation of the axe data carried
\* the tag wcag2aa, and 'WCAG 2.1 AA (Target)' only when none did.
TaggedAA(list) ==
  \E i \in 1..Len(list) :
    /\ "tags" \in DOMAIN list[i]
    /\ \E j \in 1..Len(list[i].tags) : list[i].tags[j] = "wcag2aa"
C28_WcagLevelOfScan ==
  ReportOfScan =>
    report.wcag_level = IF TaggedAA(ScanViolations) THEN "WCAG 2.0 A (Minimum)"
                        ELSE "WCAG 2.1 AA (Target)"

\* the files of the output directory by kind, and the calls that returned
EndsWith(name, suffix) ==
  /\ Len(name) >= Len(suffix)
  /\ SubSeq(name, Len(name) - Len(suffix) + 1, Len(name)) = suffix
JsonFiles == {n \in DOMAIN files : EndsWith(n, <<".", "j", "s", "o", "n">>)}
CsvFiles == {n \in DOMAIN files : EndsWith(n, <<".", "c", "s", "v">>)}
BetweenCalls == policy = "generate_reports" /\ pc \in {"idle", "returned"}

\* C21: after n calls of generate_report on the same output directory the
\* directory holds n json files and n csv files, a pair for each report
\* under the base name of its timestamp: no call writes the file of another
\* call, calls within the same second of the clock included.
C21_OnePairPerReport ==
  BetweenCalls =>
    /\ Cardinality(JsonFiles) = calls
    /\ Cardinality(CsvFiles) = calls
    /\ calls > 0 =>
         /\ JsonFile(timestamp) \in JsonFiles
         /\ CsvFile(timestamp) \in CsvFiles

\* the handler of POST /analyze/pdf has answered an upload it had saved
Answered == policy = "analyze_pdf" /\ "status_code" \in DOMAIN result
Saved == Answered /\ result.status_code # 400

\* C29: the handler of POST /analyze/pdf leaves no temporary file: when it
\* answers an upload it had saved to a temporary file, the file is deleted,
\* whether the analysis returned results, returned the error result or
\* raised.
C29_NoTempFileLeft == Saved => DOMAIN files = {}

\* _check_with_playwright has returned or raised
LeftPlaywright == policy = "check_with_playwright" /\ step = "left"

\* C30: every browser _check_with_playwright launches is closed by
\* browser.close() before the function returns or raises, whichever step
\* after the launch fails: opening the page, the navigation, the run of axe
\* or the processing of the results.
C30_BrowserClosed == LeftPlaywright => browser \in {"none", "closed"}
====
